---- MODULE Spec2Model ----
(***************************************************************************)
(* Model of the calculation engine of the Real-Estate-Calculator           *)
(* (src/utils/calculations.py).                                            *)
(*                                                                         *)
(* Python numbers are modelled as exact rationals: every formula is        *)
(* computed operation by operation as the source computes it, without      *)
(* floating-point rounding.  Numerators and denominators are arbitrary-    *)
(* precision naturals (sequences of digits, least significant first),      *)
(* because powers such as 1.08 ** 10 exceed 32-bit integers.               *)
(* A Python exception is modelled as a result whose status names it.       *)
(***************************************************************************)
EXTENDS Integers, Sequences, FiniteSets, TLC

VARIABLES wf_args, wf_result, am_call, am_result,
          pg_call, pg_result, irr_call, irr, scenarios, scenario_counter,
          costs, annual_cost

\* the projector, exit and page evaluations; the IRR solver; the session's scenario list
\* and its annual operating costs
pg_vars == <<pg_call, pg_result>>
irr_vars == <<irr_call, irr>>
cost_vars == <<costs, annual_cost>>
ss_vars == <<scenarios, scenario_counter, cost_vars>>

vars == <<wf_args, wf_result, am_call, am_result, pg_vars, irr_vars, ss_vars>>

(***************************************************************************)
(* Arbitrary-precision naturals: <<>> is 0, otherwise the digits in base   *)
(* Base, least significant first, with a non-zero last digit.              *)
(***************************************************************************)
Base == 10000

Abs(v) == IF v < 0 THEN -v ELSE v

RECURSIVE BFromNat(_)
BFromNat(v) == IF v = 0 THEN <<>> ELSE <<v % Base>> \o BFromNat(v \div Base)

Limb(a, i) == IF i <= Len(a) THEN a[i] ELSE 0

\* The digit-by-digit loops below split their range in halves, passing the carry
\* from the low half to the high half, so that they nest only log(length) deep.

\* highest index in lo..hi with a[i] # b[i] (0 if none); b = <<>> finds the top digit
RECURSIVE TopDiff(_, _, _, _)
TopDiff(a, b, lo, hi) ==
    IF lo > hi THEN 0
    ELSE IF lo = hi THEN (IF a[lo] # Limb(b, lo) THEN lo ELSE 0)
    ELSE LET mid == (lo + hi) \div 2
             t == TopDiff(a, b, mid + 1, hi)
         IN  IF t # 0 THEN t ELSE TopDiff(a, b, lo, mid)

BTrim(a) == SubSeq(a, 1, TopDiff(a, <<>>, 1, Len(a)))

\* digits lo..hi of a + b + c and the carry out
RECURSIVE BAddRange(_, _, _, _, _)
BAddRange(a, b, lo, hi, c) ==
    IF lo = hi
    THEN LET v == Limb(a, lo) + Limb(b, lo) + c
         IN  <<(<<v % Base>>), v \div Base>>
    ELSE LET mid == (lo + hi) \div 2
             l == BAddRange(a, b, lo, mid, c)
             h == BAddRange(a, b, mid + 1, hi, l[2])
         IN  <<l[1] \o h[1], h[2]>>

\* the digits r[1] with the carry r[2] on top
WithCarry(r) == IF r[2] = 0 THEN r[1] ELSE Append(r[1], r[2])

BAdd(a, b) ==
    IF a = <<>> THEN b
    ELSE IF b = <<>> THEN a
    ELSE WithCarry(BAddRange(a, b, 1, IF Len(a) >= Len(b) THEN Len(a) ELSE Len(b), 0))

\* digits lo..hi of a - b - c and the borrow out
RECURSIVE BSubRange(_, _, _, _, _)
BSubRange(a, b, lo, hi, c) ==
    IF lo = hi
    THEN LET v == a[lo] - Limb(b, lo) - c
         IN  IF v < 0 THEN <<(<<v + Base>>), 1>> ELSE <<(<<v>>), 0>>
    ELSE LET mid == (lo + hi) \div 2
             l == BSubRange(a, b, lo, mid, c)
             h == BSubRange(a, b, mid + 1, hi, l[2])
         IN  <<l[1] \o h[1], h[2]>>

\* a - b for a >= b
BSub(a, b) == IF b = <<>> THEN a ELSE BTrim(BSubRange(a, b, 1, Len(a), 0)[1])

\* -1, 0, 1 as a < b, a = b, a > b
BCmp(a, b) ==
    IF Len(a) < Len(b) THEN -1
    ELSE IF Len(a) > Len(b) THEN 1
    ELSE LET t == TopDiff(a, b, 1, Len(a))
         IN  IF t = 0 THEN 0 ELSE IF a[t] < b[t] THEN -1 ELSE 1

\* digits lo..hi of a * k + c and the carry out, for one digit k
RECURSIVE BMulLimbRange(_, _, _, _, _)
BMulLimbRange(a, k, lo, hi, c) ==
    IF lo = hi
    THEN LET v == a[lo] * k + c
         IN  <<(<<v % Base>>), v \div Base>>
    ELSE LET mid == (lo + hi) \div 2
             l == BMulLimbRange(a, k, lo, mid, c)
             h == BMulLimbRange(a, k, mid + 1, hi, l[2])
         IN  <<l[1] \o h[1], h[2]>>

BMulLimb(a, k) ==
    IF k = 0 THEN <<>> ELSE WithCarry(BMulLimbRange(a, k, 1, Len(a), 0))

\* a * (digits lo..hi of b, in their places)
RECURSIVE BMulRange(_, _, _, _)
BMulRange(a, b, lo, hi) ==
    IF lo = hi
    THEN IF b[lo] = 0 THEN <<>> ELSE [i \in 1..(lo - 1) |-> 0] \o BMulLimb(a, b[lo])
    ELSE LET mid == (lo + hi) \div 2
         IN  BAdd(BMulRange(a, b, lo, mid), BMulRange(a, b, mid + 1, hi))

BMul(a, b) ==
    IF a = <<>> \/ b = <<>> THEN <<>>
    ELSE IF b = <<1>> THEN a
    ELSE IF a = <<1>> THEN b
    ELSE BMulRange(IF Len(a) >= Len(b) THEN a ELSE b, IF Len(a) >= Len(b) THEN b ELSE a,
                   1, IF Len(a) >= Len(b) THEN Len(b) ELSE Len(a))

RECURSIVE BPow(_, _)
BPow(a, k) ==
    IF k = 0 THEN <<1>>
    ELSE IF k = 1 THEN a
    ELSE IF k % 2 = 0 THEN LET h == BPow(a, k \div 2) IN BMul(h, h)
    ELSE BMul(a, BPow(a, k - 1))

\* the largest digit k in lo..hi with b * k <= a (b * lo <= a)
RECURSIVE DigitFit(_, _, _, _)
DigitFit(a, b, lo, hi) ==
    IF lo = hi THEN lo
    ELSE IF BCmp(BMulLimb(b, (lo + hi + 1) \div 2), a) <= 0
         THEN DigitFit(a, b, (lo + hi + 1) \div 2, hi)
         ELSE DigitFit(a, b, lo, (lo + hi + 1) \div 2 - 1)

\* one step of long division: the quotient digit k of a by b and what is left of a
DivStep(a, b, k) == <<(<<k>>), BSub(a, BMulLimb(b, k))>>

\* digits lo..hi of the quotient of (r, then the digits hi..lo of a) by b, and the
\* remainder, for r < b; the high half is computed first and passes its remainder to
\* the low half
RECURSIVE BDivRange(_, _, _, _, _)
BDivRange(a, b, lo, hi, r) ==
    IF lo = hi
    THEN DivStep(BTrim(<<a[lo]>> \o r), b, DigitFit(BTrim(<<a[lo]>> \o r), b, 0, Base - 1))
    ELSE LET mid == (lo + hi) \div 2
             h == BDivRange(a, b, mid + 1, hi, r)
             l == BDivRange(a, b, lo, mid, h[2])
         IN  IF Len(h[1]) > 0 THEN <<l[1] \o h[1], l[2]>> ELSE <<>>

\* the whole part of a / b, for b # 0
BDiv(a, b) ==
    IF BCmp(a, b) < 0 THEN <<>> ELSE BTrim(BDivRange(a, b, 1, Len(a), <<>>)[1])

(***************************************************************************)
(* Exact rationals standing for Python's numbers: [s, n, f] is s * n / d   *)
(* with s the sign (-1, 0, 1), n the magnitude of the numerator and d the  *)
(* product of the factors f, a bag of naturals > 1 (factor :> exponent).   *)
(* Keeping the denominator as the divisors it was built from lets sums     *)
(* take a common denominator without computing greatest common divisors.   *)
(* Fractions are not kept in lowest terms; REq compares values.            *)
(***************************************************************************)
NoFactors == [x \in {} |-> 0]

Exponent(f, x) == IF x \in DOMAIN f THEN f[x] ELSE 0

Larger(m, n) == IF m >= n THEN m ELSE n

FactorsTimes(f, g) ==
    [x \in DOMAIN f \cup DOMAIN g |-> Exponent(f, x) + Exponent(g, x)]

FactorsLcm(f, g) ==
    [x \in DOMAIN f \cup DOMAIN g |-> Larger(Exponent(f, x), Exponent(g, x))]

\* f without g, exponent by exponent
FactorsLess(f, g) ==
    [x \in {y \in DOMAIN f : f[y] > Exponent(g, y)} |-> f[x] - Exponent(g, x)]

RECURSIVE FactorsProduct(_)
FactorsProduct(f) ==
    IF DOMAIN f = {} THEN <<1>>
    ELSE LET x == CHOOSE y \in DOMAIN f : TRUE
         IN  BMul(BPow(x, f[x]), FactorsProduct([y \in DOMAIN f \ {x} |-> f[y]]))

RNorm(s, n, f) ==
    IF n = <<>> \/ s = 0 THEN [s |-> 0, n |-> <<>>, f |-> NoFactors]
    ELSE [s |-> s, n |-> n, f |-> f]

R(v) == [s |-> IF v > 0 THEN 1 ELSE IF v < 0 THEN -1 ELSE 0,
         n |-> BFromNat(Abs(v)), f |-> NoFactors]

Zero == R(0)
One == R(1)
Hundred == R(100)

RNeg(a) == [a EXCEPT !.s = -a.s]

\* the numerator of a over the common denominator of a and b
Lifted(a, b) == BMul(a.n, FactorsProduct(FactorsLess(FactorsLcm(a.f, b.f), a.f)))

\* sign of a - b
RCmp(a, b) ==
    IF a.s # b.s THEN (IF a.s < b.s THEN -1 ELSE 1)
    ELSE IF a.s = 0 THEN 0
    ELSE a.s * BCmp(Lifted(a, b), Lifted(b, a))

REq(a, b) == RCmp(a, b) = 0
RLe(a, b) == RCmp(a, b) <= 0
RLt(a, b) == RCmp(a, b) < 0
RGe(a, b) == RCmp(a, b) >= 0
RGt(a, b) == RCmp(a, b) > 0

\* sa * an + sb * bn over the denominator f, for signs sa, sb # 0
SignedSum(sa, an, sb, bn, f, c) ==
    IF sa = sb THEN RNorm(sa, BAdd(an, bn), f)
    ELSE IF c = 0 THEN [s |-> 0, n |-> <<>>, f |-> NoFactors]
    ELSE IF c > 0 THEN RNorm(sa, BSub(an, bn), f)
    ELSE RNorm(sb, BSub(bn, an), f)

SumOverCommon(sa, an, sb, bn, f) == SignedSum(sa, an, sb, bn, f, BCmp(an, bn))

RAdd(a, b) ==
    IF a.s = 0 THEN b
    ELSE IF b.s = 0 THEN a
    ELSE SumOverCommon(a.s, Lifted(a, b), b.s, Lifted(b, a), FactorsLcm(a.f, b.f))

RSub(a, b) == RAdd(a, RNeg(b))

RMul(a, b) ==
    IF a.s = 0 \/ b.s = 0 THEN Zero
    ELSE RNorm(a.s * b.s, BMul(a.n, b.n), FactorsTimes(a.f, b.f))

\* a / b for b # 0; where the source can divide by zero the model tests the divisor first
RDiv(a, b) ==
    IF a.s = 0 THEN Zero
    ELSE RNorm(a.s * b.s,
               BMul(a.n, FactorsProduct(FactorsLess(b.f, a.f))),
               FactorsTimes(FactorsLess(a.f, b.f),
                            IF b.n = <<1>> THEN NoFactors ELSE [x \in {b.n} |-> 1]))

\* comparisons with 0 read the sign
IsZero(a) == a.s = 0
Positive(a) == a.s > 0
NonPositive(a) == a.s <= 0

RMax(a, b) == IF RGe(a, b) THEN a ELSE b

RAbs(a) == [a EXCEPT !.s = a.s * a.s]

\* a ** k for an integer exponent k (a # 0 when k < 0)
RECURSIVE RPow(_, _)
RPow(a, k) ==
    IF k = 0 THEN One
    ELSE IF k < 0 THEN RDiv(One, RPow(a, -k))
    ELSE [s |-> IF k % 2 = 0 THEN a.s * a.s ELSE a.s,
          n |-> BPow(a.n, k),
          f |-> [x \in DOMAIN a.f |-> a.f[x] * k]]

\* no call made yet / no result yet
NoCall == [fn |-> "none"]

\* the result of a call that raised ZeroDivisionError
ZeroDivisionError == [status |-> "ZeroDivisionError"]

IsNumber(v) == DOMAIN v = {"s", "n", "f"}

(***************************************************************************)
(* Amortization Module                                                     *)
(***************************************************************************)
Twelve == R(12)

\* monthly_rate = annual_rate / 12 / 100
monthly_rate(annual_rate) == RDiv(RDiv(annual_rate, Twelve), Hundred)

\* (1 + rate) ** n
Growth(rate, n) == RPow(RAdd(One, rate), n)

\* payment = loan_amount * (monthly_rate * growth) / (growth - 1)
payment(loan_amount, rate, growth) ==
    IF IsZero(RSub(growth, One)) THEN ZeroDivisionError
    ELSE RDiv(RMul(loan_amount, RMul(rate, growth)), RSub(growth, One))

\* the second zero test and the formula, on the monthly rate
PaymentAtRate(loan_amount, rate, num_payments) ==
    IF IsZero(rate) THEN RDiv(loan_amount, R(num_payments))
    ELSE payment(loan_amount, rate, Growth(rate, num_payments))

calculate_monthly_payment_perYear(loan_amount, annual_rate, term_years) ==
    IF NonPositive(loan_amount) \/ term_years <= 0 THEN Zero
    ELSE IF IsZero(annual_rate) THEN RDiv(loan_amount, R(term_years))
    ELSE PaymentAtRate(loan_amount, monthly_rate(annual_rate), term_years * 12)

calculate_monthly_payment(loan_amount, annual_rate, term_years) ==
    IF NonPositive(loan_amount) \/ term_years <= 0 THEN Zero
    ELSE IF IsZero(annual_rate) THEN RDiv(loan_amount, R(term_years * 12))
    ELSE PaymentAtRate(loan_amount, monthly_rate(annual_rate), term_years * 12)

fv_paymentOnce(rate, pmt, pv, growth) == RSub(RMul(pv, growth), pmt)

\* fv = pv * growth - pmt * ((growth - 1) / rate)
fv(rate, pmt, pv, growth) ==
    RSub(RMul(pv, growth), RMul(pmt, RDiv(RSub(growth, One), rate)))

calculate_fv(rate, nper, pmt, pv) ==
    IF IsZero(rate) THEN RSub(pv, RMul(pmt, R(nper)))
    ELSE RMax(Zero, fv(rate, pmt, pv, Growth(rate, nper)))

\* return calculate_fv(monthly_rate, payments_made, monthly_payment, loan_amount),
\* unless computing monthly_payment raised
BalanceAfter(rate, payments_made, monthly_payment, loan_amount) ==
    IF ~IsNumber(monthly_payment) THEN monthly_payment
    ELSE calculate_fv(rate, payments_made, monthly_payment, loan_amount)

calculate_remaining_principal_noPaymentsGuard(loan_amount, annual_rate, term_years, payments_made) ==
    IF NonPositive(loan_amount) \/ term_years <= 0 THEN Zero
    ELSE BalanceAfter(monthly_rate(annual_rate), payments_made,
                      calculate_monthly_payment(loan_amount, annual_rate, term_years),
                      loan_amount)

calculate_remaining_principal(loan_amount, annual_rate, term_years, payments_made) ==
    IF NonPositive(loan_amount) \/ term_years <= 0 \/ payments_made <= 0 THEN Zero
    ELSE BalanceAfter(monthly_rate(annual_rate), payments_made,
                      calculate_monthly_payment(loan_amount, annual_rate, term_years),
                      loan_amount)

\* remaining_principal = loan_amount * (growth - paid_growth) / (growth - 1)
remaining_principal(loan_amount, growth, paid_growth) ==
    RDiv(RMul(loan_amount, RSub(growth, paid_growth)), RSub(growth, One))

\* interest_payment = remaining_principal * monthly_rate, for period > 1: the call
\* that computes monthly_payment comes first and may raise
interest_payment(monthly_payment, principal_at_start, rate) ==
    IF ~IsNumber(monthly_payment) THEN monthly_payment
    ELSE RMul(principal_at_start, rate)

calculate_ipmt_balanceAfterPeriod(loan_amount, annual_rate, term_years, period) ==
    IF NonPositive(loan_amount) \/ term_years <= 0 \/ period < 1 THEN Zero
    ELSE IF IsZero(monthly_rate(annual_rate)) THEN Zero
    ELSE IF period = 1 THEN RMul(loan_amount, monthly_rate(annual_rate))
    ELSE interest_payment(
             calculate_monthly_payment(loan_amount, annual_rate, term_years),
             remaining_principal(loan_amount,
                                 Growth(monthly_rate(annual_rate), term_years * 12),
                                 Growth(monthly_rate(annual_rate), period)),
             monthly_rate(annual_rate))

calculate_ipmt(loan_amount, annual_rate, term_years, period) ==
    IF NonPositive(loan_amount) \/ term_years <= 0 \/ period < 1 THEN Zero
    ELSE IF IsZero(monthly_rate(annual_rate)) THEN Zero
    ELSE IF period = 1 THEN RMul(loan_amount, monthly_rate(annual_rate))
    ELSE interest_payment(
             calculate_monthly_payment(loan_amount, annual_rate, term_years),
             remaining_principal(loan_amount,
                                 Growth(monthly_rate(annual_rate), term_years * 12),
                                 Growth(monthly_rate(annual_rate), period - 1)),
             monthly_rate(annual_rate))

\* Bounds of the amortization inputs
MaxPayments == 14
MaxPeriod == 14

\* Inputs of the amortization functions: dollars, annual rates in percent (the
\* scenario form offers 0..30), whole years, whole months
LoanSet == {R(-1000), R(0), R(1200), R(412500)}
RateSet == {R(0), R(7), R(12)}
TermSet == {-1, 0, 1, 2}
PaymentsMadeSet == (-1)..MaxPayments
PeriodSet == 0..MaxPeriod
PeriodicRateSet == {monthly_rate(a) : a \in RateSet}
PmtSet == {R(100), R(200)}
PvSet == {R(1200), R(412500)}

AmortCalls ==
    [fn : {"monthly_payment"}, loan_amount : LoanSet, annual_rate : RateSet,
     term_years : TermSet]
    \cup [fn : {"fv"}, rate : PeriodicRateSet, nper : 1..MaxPayments, pmt : PmtSet,
          pv : PvSet]
    \cup [fn : {"remaining_principal"}, loan_amount : LoanSet, annual_rate : RateSet,
          term_years : TermSet, payments_made : PaymentsMadeSet]
    \cup [fn : {"ipmt"}, loan_amount : LoanSet, annual_rate : RateSet,
          term_years : TermSet, period : PeriodSet]

AmInit ==
    /\ am_call \in AmortCalls
    /\ am_result = NoCall

CallMonthlyPayment ==
    /\ am_call.fn = "monthly_payment"
    /\ am_result = NoCall
    /\ am_result' = calculate_monthly_payment(am_call.loan_amount, am_call.annual_rate,
                                              am_call.term_years)
    /\ UNCHANGED <<am_call, wf_args, wf_result, pg_vars, irr_vars, ss_vars>>

CallFv ==
    /\ am_call.fn = "fv"
    /\ am_result = NoCall
    /\ am_result' = calculate_fv(am_call.rate, am_call.nper, am_call.pmt, am_call.pv)
    /\ UNCHANGED <<am_call, wf_args, wf_result, pg_vars, irr_vars, ss_vars>>

CallRemainingPrincipal ==
    /\ am_call.fn = "remaining_principal"
    /\ am_result = NoCall
    /\ am_result' = calculate_remaining_principal(am_call.loan_amount,
                        am_call.annual_rate, am_call.term_years, am_call.payments_made)
    /\ UNCHANGED <<am_call, wf_args, wf_result, pg_vars, irr_vars, ss_vars>>

CallIpmt ==
    /\ am_call.fn = "ipmt"
    /\ am_result = NoCall
    /\ am_result' = calculate_ipmt(am_call.loan_amount, am_call.annual_rate,
                                   am_call.term_years, am_call.period)
    /\ UNCHANGED <<am_call, wf_args, wf_result, pg_vars, irr_vars, ss_vars>>

(***************************************************************************)
(* Waterfall Distributor: calculate_waterfall_distribution                 *)
(***************************************************************************)
\* Informational return labels of the fixed profit tiers
Tier1Return == 8
Tier2Return == 15
Tier3Return == 50

\* tiers = {'tier1': ..., 'tier2': ..., 'tier3': ...}: a dict iterates in insertion order
TierNames == <<"tier1", "tier2", "tier3">>

tiers ==
    [tier1 |-> [return |-> Tier1Return, lp |-> 80, gp |-> 20],
     tier2 |-> [return |-> Tier2Return, lp |-> 70, gp |-> 30],
     tier3 |-> [return |-> Tier3Return, lp |-> 50, gp |-> 50]]

hurdle_return_noMinusOne(adjusted_raise, hurdle_rate, years_held) ==
    RMul(adjusted_raise, RPow(RAdd(One, RDiv(hurdle_rate, Hundred)), years_held))

\* hurdle_return = adjusted_raise * (((1 + hurdle_rate / 100) ** years_held) - 1)
hurdle_return(adjusted_raise, hurdle_rate, years_held) ==
    RMul(adjusted_raise,
         RSub(RPow(RAdd(One, RDiv(hurdle_rate, Hundred)), years_held), One))

\* "remaining" after the hurdle tier: remaining -= hurdle_return, or remaining = 0
HurdleRemaining_partialKept(left_to_distribute, hr) ==
    IF RGe(left_to_distribute, hr) THEN RSub(left_to_distribute, hr)
    ELSE left_to_distribute

HurdleRemaining(left_to_distribute, hr) ==
    IF RGe(left_to_distribute, hr) THEN RSub(left_to_distribute, hr) ELSE Zero

\* amount (and lp) of the hurdle tier: hurdle_return, or all there is
HurdleAmount(left_to_distribute, hr) ==
    IF RGe(left_to_distribute, hr) THEN hr ELSE left_to_distribute

\* the local variables after the if/else of the hurdle tier
HurdleLocals(hurdle_rate, remaining, amount) ==
    [status |-> "ok",
     remaining |-> remaining,
     gp_total |-> Zero,
     lp_total |-> amount,
     tier_distributions |->
         [t \in {"hurdle"} |->
             [return_percent |-> hurdle_rate, amount |-> amount,
              gp |-> Zero, lp |-> amount]]]

HurdleSplit(left_to_distribute, hurdle_rate, hr) ==
    HurdleLocals(hurdle_rate, HurdleRemaining(left_to_distribute, hr),
                 HurdleAmount(left_to_distribute, hr))

\* The hurdle tier
HurdleTier(left_to_distribute, adjusted_raise, hurdle_rate, years_held) ==
    HurdleSplit(left_to_distribute, hurdle_rate,
                hurdle_return(adjusted_raise, hurdle_rate, years_held))

\* tier_distributions[tier_name] = row
PutTier(s, tier_name, row) ==
    [t \in (DOMAIN s.tier_distributions) \cup {tier_name} |->
        IF t = tier_name THEN row ELSE s.tier_distributions[t]]

\* gp_share_from_remaining = (remaining / (gp_percent / 100)) * (lp_percent / 100)
gp_share_from_remaining(remaining, gp_percent, lp_percent) ==
    RMul(RDiv(remaining, RDiv(gp_percent, Hundred)), RDiv(lp_percent, Hundred))

TierSplit_strictCompare(remaining, gp_share, gp_percent, lp_percent) ==
    IF RLt(gp_share, remaining)
    THEN [gp_amount |-> gp_share, lp_amount |-> RSub(remaining, gp_share)]
    ELSE [gp_amount |-> RMul(remaining, RDiv(gp_percent, Hundred)),
          lp_amount |-> RMul(remaining, RDiv(lp_percent, Hundred))]

\* gp_amount, lp_amount of one profit tier
TierSplit(remaining, gp_share, gp_percent, lp_percent) ==
    IF RLe(gp_share, remaining)
    THEN [gp_amount |-> gp_share, lp_amount |-> RSub(remaining, gp_share)]
    ELSE [gp_amount |-> RMul(remaining, RDiv(gp_percent, Hundred)),
          lp_amount |-> RMul(remaining, RDiv(lp_percent, Hundred))]

\* remaining -= (gp_amount + lp_amount)
TierRemaining_gpOnly(remaining, gp_amount, lp_amount) == RSub(remaining, gp_amount)

TierRemaining(remaining, gp_amount, lp_amount) ==
    RSub(remaining, RAdd(gp_amount, lp_amount))

\* the totals, the tier's row and the balance once the tier's amounts are known
TierPaid(s, tier_name, split) ==
    [status |-> "ok",
     remaining |-> TierRemaining(s.remaining, split.gp_amount, split.lp_amount),
     gp_total |-> RAdd(s.gp_total, split.gp_amount),
     lp_total |-> RAdd(s.lp_total, split.lp_amount),
     tier_distributions |->
         PutTier(s, tier_name,
                 [return_percent |-> R(tiers[tier_name].return),
                  amount |-> s.remaining,
                  gp |-> split.gp_amount, lp |-> split.lp_amount])]

\* One iteration of "for tier_name, tier_config in tiers.items()"
TierStep(s, tier_name, gp_percent, lp_percent) ==
    IF s.status # "ok" THEN s
    ELSE IF NonPositive(s.remaining)
    THEN [s EXCEPT !.tier_distributions =
            PutTier(s, tier_name,
                    [return_percent |-> R(tiers[tier_name].return), amount |-> Zero,
                     gp |-> Zero, lp |-> Zero])]
    ELSE IF IsZero(RDiv(gp_percent, Hundred))
    THEN ZeroDivisionError
    ELSE TierPaid(s, tier_name,
                  TierSplit(s.remaining,
                            gp_share_from_remaining(s.remaining, gp_percent, lp_percent),
                            gp_percent, lp_percent))

RECURSIVE TierLoop(_, _, _, _)
TierLoop(s, i, gp_percent, lp_percent) ==
    IF i > Len(TierNames) THEN s
    ELSE TierLoop(TierStep(s, TierNames[i], gp_percent, lp_percent), i + 1,
                  gp_percent, lp_percent)

\* total_distributed and the returned dict, from the locals after the loop
WaterfallResult(left_to_distribute, adjusted_raise, s) ==
    IF s.status # "ok" THEN s
    ELSE [status |-> "ok",
          left_to_distribute |-> left_to_distribute,
          adjusted_raise |-> adjusted_raise,
          tier_distributions |-> s.tier_distributions,
          gp_total |-> s.gp_total,
          lp_total |-> s.lp_total,
          total_distributed |-> RSub(left_to_distribute, s.remaining),
          left_over |-> s.remaining,
          lp_multiple |-> IF Positive(adjusted_raise)
                          THEN RDiv(RAdd(adjusted_raise, s.lp_total), adjusted_raise)
                          ELSE Zero]

calculate_waterfall_distribution(left_to_distribute, adjusted_raise, gp_percent, lp_percent, hurdle_rate, years_held) ==
    WaterfallResult(left_to_distribute, adjusted_raise,
                    TierLoop(HurdleTier(left_to_distribute, adjusted_raise, hurdle_rate,
                                        years_held), 1, gp_percent, lp_percent))

\* Inputs of distribute: dollars, percents (the page offers 0..100 for GP % and LP %,
\* 0..50 for the hurdle rate) and whole years held
ProceedsSet == {R(-1000), R(0), R(100), R(1000), R(240000), R(1000000)}
RaiseSet == {R(0), R(1000), R(175000)}
GpPercentSet == {R(0), R(20), R(30), R(50), R(80), R(100)}
LpPercentSet == {R(0), R(20), R(50), R(70), R(80), R(100)}
HurdleRateSet == {R(0), R(8), R(50)}
YearsHeldSet == {1, 2, 10}

WaterfallArgs ==
    [fn : {"distribute"}, left_to_distribute : ProceedsSet, adjusted_raise : RaiseSet,
     gp_percent : GpPercentSet, lp_percent : LpPercentSet,
     hurdle_rate : HurdleRateSet, years_held : YearsHeldSet]

\* The waterfall page and the comparison page hold one set of inputs each time they run
WfInit ==
    /\ wf_args \in WaterfallArgs
    /\ wf_result = NoCall

WfIdle ==
    /\ wf_args = NoCall
    /\ wf_result = NoCall

\* A caller evaluates the distributor on its inputs
CallWaterfall ==
    /\ wf_args # NoCall
    /\ wf_result = NoCall
    /\ wf_result' = calculate_waterfall_distribution(
                        wf_args.left_to_distribute, wf_args.adjusted_raise,
                        wf_args.gp_percent, wf_args.lp_percent,
                        wf_args.hurdle_rate, wf_args.years_held)
    /\ UNCHANGED <<wf_args, am_call, am_result, pg_vars, irr_vars, ss_vars>>

AmIdle ==
    /\ am_call = NoCall
    /\ am_result = NoCall

PgIdle ==
    /\ pg_call = NoCall
    /\ pg_result = NoCall

IrrIdle ==
    /\ irr_call = NoCall
    /\ irr = NoCall

\* the six cost components of the session
CostNames == {"hoa_fee", "cam_fee", "property_taxes", "insurance", "misc", "other"}

\* initialize_session_state: scenarios = [], scenario_counter = 0, every cost component
\* and annual_cost 0.0
SsIdle ==
    /\ scenarios = <<>>
    /\ scenario_counter = 0
    /\ costs = [name \in CostNames |-> Zero]
    /\ annual_cost = Zero

InitWaterfall == WfInit /\ AmIdle /\ PgIdle /\ IrrIdle /\ SsIdle

NextWaterfall == CallWaterfall

SpecWaterfall == InitWaterfall /\ [][NextWaterfall]_vars

InitAmort == AmInit /\ WfIdle /\ PgIdle /\ IrrIdle /\ SsIdle

NextAmort ==
    \/ CallMonthlyPayment
    \/ CallFv
    \/ CallRemainingPrincipal
    \/ CallIpmt

SpecAmort == InitAmort /\ [][NextAmort]_vars

(***************************************************************************)
(* Financing Resolver and Cash-Flow Projector                              *)
(***************************************************************************)
\* A scenario is the dict built by the Add Scenario button: every key is present,
\* so scenario.get(key, default) never uses its default.

calculate_loan_metrics_raiseWithoutStartup(project_cost, scenario) ==
    [loan_amount |-> RMul(project_cost, RDiv(scenario.loan_percent, Hundred)),
     down_payment |-> RMul(project_cost, RDiv(scenario.down_payment_percent, Hundred)),
     raise_amount |-> RMul(project_cost, RDiv(scenario.down_payment_percent, Hundred)),
     difference_reserve_cash |->
         RSub(scenario.adjusted_raise,
              RMul(project_cost, RDiv(scenario.down_payment_percent, Hundred)))]

calculate_loan_metrics(project_cost, scenario) ==
    [loan_amount |-> RMul(project_cost, RDiv(scenario.loan_percent, Hundred)),
     down_payment |-> RMul(project_cost, RDiv(scenario.down_payment_percent, Hundred)),
     raise_amount |->
         RAdd(RMul(project_cost, RDiv(scenario.down_payment_percent, Hundred)),
              scenario.additional_startup),
     difference_reserve_cash |->
         RSub(scenario.adjusted_raise,
              RAdd(RMul(project_cost, RDiv(scenario.down_payment_percent, Hundred)),
                   scenario.additional_startup))]

\* return monthly_payment * 12, unless computing monthly_payment raised
TimesTwelve(monthly_payment) ==
    IF ~IsNumber(monthly_payment) THEN monthly_payment
    ELSE RMul(monthly_payment, Twelve)

calculate_annual_debt_service(loan_amount, annual_rate, term_years) ==
    TimesTwelve(calculate_monthly_payment(loan_amount, annual_rate, term_years))

calculate_noi(gross_income, total_annual_costs) == RSub(gross_income, total_annual_costs)

\* for year in range(1, years + 1): projections[year] = current_price;
\*     current_price = current_price * (1 + escalator / 100)
RECURSIVE PriceLoop(_, _, _, _)
PriceLoop(projections, current_price, escalator, years) ==
    IF Len(projections) >= years THEN projections
    ELSE PriceLoop(Append(projections, current_price),
                   RMul(current_price, RAdd(One, RDiv(escalator, Hundred))),
                   escalator, years)

calculate_price_per_projection_flat(price_per, escalator, years) ==
    PriceLoop(<<>>, price_per, Zero, years)

calculate_price_per_projection(price_per, escalator, years) ==
    PriceLoop(<<>>, price_per, escalator, years)

\* the rows of calculate_10_year_cash_flow are those of range(1, 11)
LastYear == 10

\* price_per_projection.get(year, 0)
PriceOfYear(price_per_projection, year) ==
    IF year \in DOMAIN price_per_projection THEN price_per_projection[year] ELSE Zero

\* annual_debt_service = 0; if type == 'Loan': calculate_annual_debt_service(...)
DebtServiceOf_anyType(scenario, loan_amount) ==
    calculate_annual_debt_service(loan_amount, scenario.rate, scenario.term)

DebtServiceOf(scenario, loan_amount) ==
    IF scenario.type = "Loan"
    THEN calculate_annual_debt_service(loan_amount, scenario.rate, scenario.term)
    ELSE Zero

\* lp_coc = (lp_amount / adjusted_raise * 100) if adjusted_raise > 0 else 0
LpCoc(lp_amount, adjusted_raise) ==
    IF Positive(adjusted_raise) THEN RMul(RDiv(lp_amount, adjusted_raise), Hundred)
    ELSE Zero

\* the dict appended for one year, from rent and cash_flow
RowOf_adjustedFromRent(year, rent, cash_flow, adjusted_raise, adjusted_percent, gp_percent, lp_percent) ==
    [Year |-> year,
     Rent |-> rent,
     CashFlow |-> cash_flow,
     Adjusted |-> RMul(rent, adjusted_percent),
     GP |-> RMul(RMul(rent, adjusted_percent), gp_percent),
     LP |-> RMul(RMul(rent, adjusted_percent), lp_percent),
     LPCoC |-> LpCoc(RMul(RMul(rent, adjusted_percent), lp_percent), adjusted_raise)]

RowOf(year, rent, cash_flow, adjusted_raise, adjusted_percent, gp_percent, lp_percent) ==
    [Year |-> year,
     Rent |-> rent,
     CashFlow |-> cash_flow,
     Adjusted |-> RMul(cash_flow, adjusted_percent),
     GP |-> RMul(RMul(cash_flow, adjusted_percent), gp_percent),
     LP |-> RMul(RMul(cash_flow, adjusted_percent), lp_percent),
     LPCoC |-> LpCoc(RMul(RMul(cash_flow, adjusted_percent), lp_percent), adjusted_raise)]

\* rent = price_per * total_sqft; cash_flow = rent - annual_costs - annual_debt_service
YearRow(year, rent, annual_costs, annual_debt_service, adjusted_raise, adjusted_percent, gp_percent, lp_percent) ==
    RowOf(year, rent, RSub(RSub(rent, annual_costs), annual_debt_service),
          adjusted_raise, adjusted_percent, gp_percent, lp_percent)

\* the loop over range(1, 11) and the DataFrame of its rows
CashFlowRows(price_per_projection, total_sqft, annual_costs, annual_debt_service, adjusted_raise, adjusted_percent, gp_percent, lp_percent) ==
    IF ~IsNumber(annual_debt_service) THEN annual_debt_service
    ELSE [year \in 1..LastYear |->
             YearRow(year, RMul(PriceOfYear(price_per_projection, year), total_sqft),
                     annual_costs, annual_debt_service, adjusted_raise,
                     adjusted_percent, gp_percent, lp_percent)]

calculate_10_year_cash_flow(scenario, price_per_projection, total_sqft, annual_costs, project_cost, adjusted_percent, gp_percent, lp_percent) ==
    CashFlowRows(price_per_projection, total_sqft, annual_costs,
                 DebtServiceOf(scenario,
                               calculate_loan_metrics(project_cost, scenario).loan_amount),
                 scenario.adjusted_raise, adjusted_percent, gp_percent, lp_percent)

(***************************************************************************)
(* Exit Valuation and the pages that use it                                *)
(***************************************************************************)
\* Python's None, and the result of an evaluation that raised TypeError
None == [status |-> "None"]
TypeError == [status |-> "TypeError"]

calculate_total_annual_costs_dollar(total_annual_cost) == total_annual_cost

calculate_exit_price_noZeroGuard(noi_year_10, exit_cap_rate) ==
    IF IsZero(exit_cap_rate) THEN Zero
    ELSE RDiv(noi_year_10, RDiv(exit_cap_rate, Hundred))

calculate_exit_price(noi_year_10, exit_cap_rate) ==
    IF IsZero(exit_cap_rate) THEN None
    ELSE RDiv(noi_year_10, RDiv(exit_cap_rate, Hundred))

calculate_cash_on_cash(total_cash_returned, total_cash_invested) ==
    IF IsZero(total_cash_invested) THEN None
    ELSE RDiv(total_cash_returned, total_cash_invested)

calculate_dscr(noi, annual_debt_service) ==
    IF IsZero(annual_debt_service) THEN None
    ELSE RDiv(noi, annual_debt_service)

\* a number + None, a number - None and None - a number raise TypeError
Plus(a, b) == IF IsNumber(a) /\ IsNumber(b) THEN RAdd(a, b) ELSE TypeError
Minus(a, b) == IF IsNumber(a) /\ IsNumber(b) THEN RSub(a, b) ELSE TypeError

\* df['Adjusted %'].sum() and df['Cash Flow'].sum() over the first n rows
RECURSIVE SumAdjusted(_, _)
SumAdjusted(df, n) ==
    IF n = 0 THEN Zero ELSE RAdd(SumAdjusted(df, n - 1), df[n].Adjusted)

RECURSIVE SumCashFlow(_, _)
SumCashFlow(df, n) ==
    IF n = 0 THEN Zero ELSE RAdd(SumCashFlow(df, n - 1), df[n].CashFlow)

\* the defaults of calculate_10_year_cash_flow: adjusted_percent=0.85, gp_percent=0.20,
\* lp_percent=0.80
DefaultAdjusted == RDiv(R(85), Hundred)
DefaultGp == RDiv(R(20), Hundred)
DefaultLp == RDiv(R(80), Hundred)

\* The three pages share their header: the projection over 10 years, the income of
\* year 10 (price_per_projection.get(10, price_per) * total_sqft) and its NOI.
Year10Income(ss) ==
    RMul(calculate_price_per_projection(ss.price_per, ss.income_escalator, LastYear)[LastYear],
         ss.total_sqft)

Year10Noi(ss) ==
    calculate_noi(Year10Income(ss), calculate_total_annual_costs_dollar(ss.annual_cost))

\* the cash flows of a scenario as pages 6 and 7 compute them (default fractions)
PageCashFlow(ss, scenario) ==
    calculate_10_year_cash_flow(scenario,
        calculate_price_per_projection(ss.price_per, ss.income_escalator, LastYear),
        ss.total_sqft, calculate_total_annual_costs_dollar(ss.annual_cost),
        ss.project_cost, DefaultAdjusted, DefaultGp, DefaultLp)

(* Page 5, Exit Returns, for one scenario *)
\* payment_monthly = 0; if type == 'Loan' and loan_amount > 0: calculate_monthly_payment
PaymentMonthly(scenario, loan_amount) ==
    IF scenario.type = "Loan" /\ Positive(loan_amount)
    THEN calculate_monthly_payment(loan_amount, scenario.rate, scenario.term)
    ELSE Zero

\* remaining_principal_10yr = 0; if Loan and loan_amount > 0 and payment_monthly > 0:
\*     calculate_fv(monthly_rate, total_payments_made, payment_monthly, loan_amount)
RemainingOnExitPage(scenario, loan_amount, payment_monthly, total_payments_made) ==
    IF scenario.type = "Loan" /\ Positive(loan_amount) /\ Positive(payment_monthly)
    THEN calculate_fv(monthly_rate(scenario.rate), total_payments_made, payment_monthly,
                      loan_amount)
    ELSE Zero

\* target_y10_income / (rate / 100) if rate > 0 else 0
ExitValueAt(target_y10_income, rate) ==
    IF Positive(rate) THEN RDiv(target_y10_income, RDiv(rate, Hundred)) ELSE Zero

HalfPoint == RDiv(One, R(2))

\* noi_year_10 is computed by the page and used nowhere
ExitReturnsRows(ss, target_y10_income, remaining_principal_10yr, exit_value_base) ==
    [status |-> "ok",
     target_y10_income |-> target_y10_income,
     noi_year_10 |->
         calculate_noi(target_y10_income,
                       calculate_total_annual_costs_dollar(ss.annual_cost)),
     remaining_principal_10yr |-> remaining_principal_10yr,
     exit_value_base |-> exit_value_base,
     exit_value_plus |-> ExitValueAt(target_y10_income, RAdd(ss.exit_cap_rate, HalfPoint)),
     exit_value_minus |-> ExitValueAt(target_y10_income, RSub(ss.exit_cap_rate, HalfPoint)),
     projected_project_equity |-> RSub(exit_value_base, remaining_principal_10yr)]

ExitReturnsOf(ss, target_y10_income, remaining_principal_10yr) ==
    ExitReturnsRows(ss, target_y10_income, remaining_principal_10yr,
                    ExitValueAt(target_y10_income, ss.exit_cap_rate))

ExitReturnsWith(ss, scenario, loan_amount) ==
    ExitReturnsOf(ss, Year10Income(ss),
        RemainingOnExitPage(scenario, loan_amount, PaymentMonthly(scenario, loan_amount),
                            ss.total_payments_made))

ExitReturnsPage(ss, scenario) ==
    ExitReturnsWith(ss, scenario, calculate_loan_metrics(ss.project_cost, scenario).loan_amount)

(* Page 6, Waterfall Distribution, for one scenario *)
\* the payments of 10 years, passed to calculate_remaining_principal
TenYearsOfPayments == 120

WaterfallPageResult(exit_price, total_cash_flows, remaining_principal_10yr, projected_project_equity, left_to_distribute, waterfall) ==
    IF waterfall.status # "ok" THEN waterfall
    ELSE [status |-> "ok",
          exit_price |-> exit_price,
          total_cash_flows |-> total_cash_flows,
          remaining_principal_10yr |-> remaining_principal_10yr,
          projected_project_equity |-> projected_project_equity,
          left_to_distribute |-> left_to_distribute,
          waterfall |-> waterfall]

WaterfallPageOf(ss, scenario, exit_price, total_cash_flows, remaining_principal_10yr, projected_project_equity, left_to_distribute) ==
    WaterfallPageResult(exit_price, total_cash_flows, remaining_principal_10yr,
        projected_project_equity, left_to_distribute,
        calculate_waterfall_distribution(left_to_distribute, scenario.adjusted_raise,
            ss.gp_percent, ss.lp_percent, ss.hurdle_rate, ss.years_held))

\* left_to_distribute = total_cash_flows + projected_project_equity, then the waterfall
WaterfallPageFrom(ss, scenario, exit_price, total_cash_flows, remaining_principal_10yr, projected_project_equity) ==
    IF ~IsNumber(projected_project_equity) THEN projected_project_equity
    ELSE WaterfallPageOf(ss, scenario, exit_price, total_cash_flows,
             remaining_principal_10yr, projected_project_equity,
             RAdd(total_cash_flows, projected_project_equity))

\* projected_project_equity = exit_value_base - remaining_principal_10yr
WaterfallPageWith(ss, scenario, exit_price, total_cash_flows, remaining_principal_10yr) ==
    WaterfallPageFrom(ss, scenario, exit_price, total_cash_flows, remaining_principal_10yr,
                      Minus(exit_price, remaining_principal_10yr))

WaterfallPage(ss, scenario) ==
    WaterfallPageWith(ss, scenario,
        calculate_exit_price(Year10Noi(ss), ss.exit_cap_rate),
        SumAdjusted(PageCashFlow(ss, scenario), LastYear),
        calculate_remaining_principal(
            calculate_loan_metrics(ss.project_cost, scenario).loan_amount,
            scenario.rate, scenario.term, TenYearsOfPayments))

(* Page 7, Final Comparison, for one scenario.  The IRR shown on the page is only *)
(* formatted for display; calculate_irr is modelled by the solver further below.  *)
\* annual_debt_service = 0; if type == 'Loan' and loan_amount > 0: ...
Year1DebtService(scenario, loan_amount) ==
    IF scenario.type = "Loan" /\ Positive(loan_amount)
    THEN calculate_annual_debt_service(loan_amount, scenario.rate, scenario.term)
    ELSE Zero

\* dscr = calculate_dscr(noi, annual_debt_service) if annual_debt_service > 0 else None
Year1Dscr(noi, annual_debt_service) ==
    IF Positive(annual_debt_service) THEN calculate_dscr(noi, annual_debt_service)
    ELSE None

FinalComparisonResult(ss, scenario, exit_price, annual_debt_service, total_cash_flow, total_cash_returned, total_proceeds) ==
    [status |-> "ok",
     exit_price |-> exit_price,
     annual_debt_service |-> annual_debt_service,
     dscr |-> Year1Dscr(calculate_noi(RMul(ss.price_per, ss.total_sqft),
                                      calculate_total_annual_costs_dollar(ss.annual_cost)),
                        annual_debt_service),
     total_cash_flow |-> total_cash_flow,
     total_cash_returned |-> total_cash_returned,
     cash_on_cash |-> calculate_cash_on_cash(total_cash_returned, scenario.adjusted_raise),
     total_proceeds |-> total_proceeds,
     waterfall |-> calculate_waterfall_distribution(total_proceeds, scenario.adjusted_raise,
                       ss.gp_percent, ss.lp_percent, ss.hurdle_rate, ss.years_held)]

\* total_cash_returned = sum(cash_flows) + exit_price raises when exit_price is None
\* an exception of the waterfall ends the page
RaisedOr(page) == IF page.waterfall.status # "ok" THEN page.waterfall ELSE page

\* and total_proceeds = total_cash_flows + exit_price is the same sum, computed again
FinalComparisonFrom(ss, scenario, exit_price, annual_debt_service, total_cash_flow, total_cash_returned, total_proceeds) ==
    IF ~IsNumber(total_cash_returned) THEN total_cash_returned
    ELSE RaisedOr(FinalComparisonResult(ss, scenario, exit_price, annual_debt_service,
                      total_cash_flow, total_cash_returned, total_proceeds))

FinalComparisonWith(ss, scenario, exit_price, annual_debt_service, total_cash_flow, total_cash_flows) ==
    FinalComparisonFrom(ss, scenario, exit_price, annual_debt_service, total_cash_flow,
                        Plus(total_cash_flows, exit_price),
                        Plus(total_cash_flows, exit_price))

\* df_cash_flow is computed alike by each loop of the page
FinalComparisonOf(ss, scenario, exit_price, annual_debt_service, df_cash_flow) ==
    FinalComparisonWith(ss, scenario, exit_price, annual_debt_service,
                        SumCashFlow(df_cash_flow, LastYear),
                        SumAdjusted(df_cash_flow, LastYear))

FinalComparisonPage(ss, scenario) ==
    FinalComparisonOf(ss, scenario,
        calculate_exit_price(Year10Noi(ss), ss.exit_cap_rate),
        Year1DebtService(scenario,
                         calculate_loan_metrics(ss.project_cost, scenario).loan_amount),
        PageCashFlow(ss, scenario))

\* Inputs of the pages.  The project form and the income form give the session's
\* values; the cap-rate input offers 0..20, the cost inputs and the base price 0 and up.
ProjectCostSet == {R(0), R(550000)}
PricePerSet == {R(0), R(35)}
EscalatorSet == {R(0), R(3)}
AnnualCostSet == {R(0), R(12000)}
CapRateSet == {R(0), HalfPoint, RDiv(R(13), R(2))}
NoiSet == {R(-1000), R(0), R(52500)}

\* The scenario form: type, loan % and down payment % in 0..100, rate in 0..30,
\* term in 1..50, additional startup and adjusted raise 0 and up
ScenarioForm ==
    [type : {"Loan", "Cash", "Hybrid"}, rate : {R(0), R(7)}, term : {1, 25},
     loan_percent : {R(0), R(75)}, down_payment_percent : {R(25), R(50)},
     additional_startup : {R(5000)}, adjusted_raise : {R(0), R(175000)}]

\* with interest the loan runs 1 year, without it 25: the 300th power of a monthly
\* growth factor is left out
ScenarioSet == {sc \in ScenarioForm : (sc.rate = R(0)) # (sc.term = 1)}

PageScenarioSet == {sc \in ScenarioSet : sc.down_payment_percent = R(25)}

SessionSet ==
    [project_cost : {R(550000)}, total_sqft : {R(1500)}, price_per : {R(35)},
     income_escalator : EscalatorSet, annual_cost : AnnualCostSet,
     exit_cap_rate : CapRateSet, total_payments_made : {TenYearsOfPayments},
     gp_percent : {R(20)}, lp_percent : {R(80)}, hurdle_rate : {R(8)}, years_held : {LastYear}]

\* the exit cap rate plays no part in the cash flows
CashFlowSessionSet == {ss \in SessionSet : ss.exit_cap_rate = R(0)}

PageCalls ==
    [fn : {"loan_metrics"}, project_cost : ProjectCostSet, scenario : ScenarioSet]
    \cup [fn : {"price_per_projection"}, price_per : PricePerSet, escalator : EscalatorSet]
    \cup [fn : {"cash_flow"}, ss : CashFlowSessionSet, scenario : PageScenarioSet,
          adjusted_percent : {R(85), R(100)}, gp_percent : {R(20)}, lp_percent : {R(80)}]
    \cup [fn : {"exit_price"}, noi_year_10 : NoiSet, exit_cap_rate : CapRateSet]
    \cup [fn : {"exit_returns_page", "waterfall_page", "final_comparison_page"},
          ss : SessionSet, scenario : PageScenarioSet]

PgInit ==
    /\ pg_call \in PageCalls
    /\ pg_result = NoCall

CallLoanMetrics ==
    /\ pg_call.fn = "loan_metrics"
    /\ pg_result = NoCall
    /\ pg_result' = calculate_loan_metrics(pg_call.project_cost, pg_call.scenario)
    /\ UNCHANGED <<pg_call, wf_args, wf_result, am_call, am_result, irr_vars, ss_vars>>

CallPriceProjection ==
    /\ pg_call.fn = "price_per_projection"
    /\ pg_result = NoCall
    /\ pg_result' = [projections |->
                        calculate_price_per_projection(pg_call.price_per,
                                                       pg_call.escalator, LastYear)]
    /\ UNCHANGED <<pg_call, wf_args, wf_result, am_call, am_result, irr_vars, ss_vars>>

\* page 3: the fractions are the page's percents / 100
CallCashFlow ==
    /\ pg_call.fn = "cash_flow"
    /\ pg_result = NoCall
    /\ pg_result' = [df |->
                        calculate_10_year_cash_flow(pg_call.scenario,
                            calculate_price_per_projection(pg_call.ss.price_per,
                                pg_call.ss.income_escalator, LastYear),
                            pg_call.ss.total_sqft,
                            calculate_total_annual_costs_dollar(pg_call.ss.annual_cost),
                            pg_call.ss.project_cost,
                            RDiv(pg_call.adjusted_percent, Hundred),
                            RDiv(pg_call.gp_percent, Hundred),
                            RDiv(pg_call.lp_percent, Hundred))]
    /\ UNCHANGED <<pg_call, wf_args, wf_result, am_call, am_result, irr_vars, ss_vars>>

CallExitPrice ==
    /\ pg_call.fn = "exit_price"
    /\ pg_result = NoCall
    /\ pg_result' = calculate_exit_price(pg_call.noi_year_10, pg_call.exit_cap_rate)
    /\ UNCHANGED <<pg_call, wf_args, wf_result, am_call, am_result, irr_vars, ss_vars>>

RenderExitReturns ==
    /\ pg_call.fn = "exit_returns_page"
    /\ pg_result = NoCall
    /\ pg_result' = ExitReturnsPage(pg_call.ss, pg_call.scenario)
    /\ UNCHANGED <<pg_call, wf_args, wf_result, am_call, am_result, irr_vars, ss_vars>>

RenderWaterfall ==
    /\ pg_call.fn = "waterfall_page"
    /\ pg_result = NoCall
    /\ pg_result' = WaterfallPage(pg_call.ss, pg_call.scenario)
    /\ UNCHANGED <<pg_call, wf_args, wf_result, am_call, am_result, irr_vars, ss_vars>>

RenderFinalComparison ==
    /\ pg_call.fn = "final_comparison_page"
    /\ pg_result = NoCall
    /\ pg_result' = FinalComparisonPage(pg_call.ss, pg_call.scenario)
    /\ UNCHANGED <<pg_call, wf_args, wf_result, am_call, am_result, irr_vars, ss_vars>>

InitPages == PgInit /\ WfIdle /\ AmIdle /\ IrrIdle /\ SsIdle

NextPages ==
    \/ CallLoanMetrics
    \/ CallPriceProjection
    \/ CallCashFlow
    \/ CallExitPrice
    \/ RenderExitReturns
    \/ RenderWaterfall
    \/ RenderFinalComparison

SpecPages == InitPages /\ [][NextPages]_vars

(***************************************************************************)
(* IRR Solver: calculate_irr and calculate_irr_manual                      *)
(*                                                                         *)
(* The solver is followed iteration by iteration.  numpy_financial is not  *)
(* part of the repository; the model takes the path on which its import    *)
(* raises ImportError, which leaves the Newton-Raphson iteration.          *)
(* The iterate is kept to RateDigits decimals, about the precision of a    *)
(* Python float, so that a hundred iterations stay representable.          *)
(***************************************************************************)
RateDigits == 15

\* def calculate_irr_manual(cash_flows, guess=0.1, tolerance=1e-6, max_iter=100)
guess == RDiv(One, R(10))
tolerance == RDiv(One, R(1000000))
max_iter == 100

\* a number to the nearest multiple of 10 ** -RateDigits
Rounded(sign, twice_numerator, denominator, grid) ==
    RNorm(sign, BDiv(BAdd(BMul(twice_numerator, grid), denominator),
                     BMul(denominator, <<2>>)),
          [x \in {grid} |-> 1])

AsFloat(a) ==
    IF a.s = 0 THEN a
    ELSE Rounded(a.s, BMul(a.n, <<2>>), FactorsProduct(a.f), BPow(<<10>>, RateDigits))

\* cf / (1 + rate) ** i raises TypeError for a cash flow that is None and
\* ZeroDivisionError when (1 + rate) ** i is 0, that is when rate = -1 and i >= 1
TermRaises(cash_flows, x, i) == ~IsNumber(cash_flows[i + 1]) \/ (IsZero(x) /\ i >= 1)

NpvRaises(cash_flows, x) == \E i \in 0..(Len(cash_flows) - 1) : TermRaises(cash_flows, x, i)

\* npv(rate) = sum([cf / (1 + rate)**i for i, cf in enumerate(cash_flows)]), x = 1 + rate
RECURSIVE npv(_, _, _)
npv(cash_flows, x, i) ==
    IF i >= Len(cash_flows) THEN Zero
    ELSE RAdd(RDiv(cash_flows[i + 1], RPow(x, i)), npv(cash_flows, x, i + 1))

\* npv_derivative(rate) = sum([-i * cf / (1 + rate)**(i+1) for i, cf in enumerate(...)])
RECURSIVE npv_derivative(_, _, _)
npv_derivative(cash_flows, x, i) ==
    IF i >= Len(cash_flows) THEN Zero
    ELSE RAdd(RDiv(RMul(R(-i), cash_flows[i + 1]), RPow(x, i + 1)),
              npv_derivative(cash_flows, x, i + 1))

\* all_cash_flows = [-abs(initial_investment)] + list(cash_flows)
all_cash_flows(call) == <<RNeg(RAbs(call.initial_investment))>> \o call.cash_flows

\* calculate_irr_manual is entered: rate = guess, no iteration done
Entered(attempt) == [pc |-> "loop", attempt |-> attempt, i |-> 0, rate |-> guess]

\* calculate_irr returns: irr * 100 for a rate, None for no rate (in the fallback
\* None * 100 raises TypeError, which its except turns into None)
Finish_guessOnFailure(st, found) ==
    [pc |-> "done", attempt |-> st.attempt, i |-> st.i, rate |-> st.rate,
     result |-> IF IsNumber(found) THEN RMul(found, Hundred) ELSE RMul(guess, Hundred)]

Finish(st, found) ==
    [pc |-> "done", attempt |-> st.attempt, i |-> st.i, rate |-> st.rate,
     result |-> IF IsNumber(found) THEN RMul(found, Hundred) ELSE None]

\* an exception in the first attempt enters the fallback of the outer except, one in
\* the fallback ends in its own except: return None
Raised(st) == IF st.attempt = 1 THEN Entered(2) ELSE Finish(st, None)

\* if abs(npv_deriv) < tolerance: break;  rate = rate - npv_val / npv_deriv
AfterDerivative(st, npv_val, npv_deriv) ==
    IF RLt(RAbs(npv_deriv), tolerance) THEN Finish(st, None)
    ELSE [st EXCEPT !.i = @ + 1, !.rate = AsFloat(RSub(st.rate, RDiv(npv_val, npv_deriv)))]

\* if abs(npv_val) < tolerance: return rate
Converged(npv_val) == RLt(RAbs(npv_val), tolerance)

AfterNpv(st, cash_flows, x, npv_val) ==
    IF Converged(npv_val) THEN Finish(st, st.rate)
    ELSE IF IsZero(x) THEN Raised(st)
    ELSE AfterDerivative(st, npv_val, npv_derivative(cash_flows, x, 0))

\* one pass of the body of "for _ in range(max_iter)"
Iteration(st, cash_flows, x) ==
    IF NpvRaises(cash_flows, x) THEN Raised(st)
    ELSE AfterNpv(st, cash_flows, x, npv(cash_flows, x, 0))

\* Calls of calculate_irr: an investment and the cash flows after it; page 7 appends
\* the exit price, which is None when the exit cap rate is 0
IrrCalls ==
    {[initial_investment |-> R(100), cash_flows |-> <<R(110)>>],
     [initial_investment |-> R(100), cash_flows |-> <<R(120)>>],
     [initial_investment |-> R(100), cash_flows |-> <<R(50)>>],
     [initial_investment |-> R(100), cash_flows |-> <<R(60), R(60)>>],
     [initial_investment |-> R(100), cash_flows |-> <<R(230), R(-132)>>],
     [initial_investment |-> R(100), cash_flows |-> <<R(100), R(-100)>>],
     [initial_investment |-> R(100), cash_flows |-> <<R(0), R(0), R(0)>>],
     [initial_investment |-> R(100), cash_flows |-> <<R(-200), R(0), R(150)>>],
     [initial_investment |-> R(100), cash_flows |-> <<R(50), None>>],
     [initial_investment |-> R(20), cash_flows |-> <<R(11)>>],
     [initial_investment |-> R(0), cash_flows |-> <<>>],
     [initial_investment |-> R(-1000), cash_flows |-> <<R(300), R(400), R(500)>>],
     [initial_investment |-> R(1000), cash_flows |-> <<R(650), R(400), R(-350)>>],
     [initial_investment |-> R(175000), cash_flows |-> <<R(50000), R(50000), R(50000)>>]}

IrrInit ==
    /\ irr_call \in IrrCalls
    /\ irr = NoCall

\* calculate_irr is called; the import fails and calculate_irr_manual is entered
EnterManual ==
    /\ irr = NoCall
    /\ irr' = Entered(1)
    /\ UNCHANGED <<irr_call, wf_args, wf_result, am_call, am_result, pg_vars, ss_vars>>

NewtonIteration ==
    /\ irr # NoCall
    /\ irr.pc = "loop"
    /\ irr.i < max_iter
    /\ irr' = Iteration(irr, all_cash_flows(irr_call), RAdd(One, irr.rate))
    /\ UNCHANGED <<irr_call, wf_args, wf_result, am_call, am_result, pg_vars, ss_vars>>

\* range(max_iter) is used up: the loop ends and calculate_irr_manual returns None
BudgetExhausted ==
    /\ irr # NoCall
    /\ irr.pc = "loop"
    /\ irr.i >= max_iter
    /\ irr' = Finish(irr, None)
    /\ UNCHANGED <<irr_call, wf_args, wf_result, am_call, am_result, pg_vars, ss_vars>>

InitIrr == IrrInit /\ WfIdle /\ AmIdle /\ PgIdle /\ SsIdle

NextIrr ==
    \/ EnterManual
    \/ NewtonIteration
    \/ BudgetExhausted

SpecIrr == InitIrr /\ [][NextIrr]_vars

(***************************************************************************)
(* Scenarios of the session: the main page, app.py                         *)
(*                                                                         *)
(* A Streamlit session runs the script once per interaction of the user,   *)
(* with at most one button reporting a click; st.rerun() ends the run.     *)
(***************************************************************************)
\* Bound of scenario_counter, that is of the Add Scenario clicks followed
MaxCounter == 5

\* if len(st.session_state.scenarios) < 3
MaxScenarios == 3

new_scenario_idFromCount(id) ==
    [id |-> IF id > MaxScenarios THEN id - MaxScenarios ELSE id, type |-> "Loan",
     rate |-> R(7), term |-> 25, loan_percent |-> R(75), down_payment_percent |-> R(25),
     additional_startup |-> R(5000), adjusted_raise |-> R(175000)]

\* new_scenario, with the id taken from the counter
new_scenario(id) ==
    [id |-> id, type |-> "Loan", rate |-> R(7), term |-> 25, loan_percent |-> R(75),
     down_payment_percent |-> R(25), additional_startup |-> R(5000),
     adjusted_raise |-> R(175000)]

\* [s for s in st.session_state.scenarios if s.get('id') != id]
RECURSIVE Without(_, _)
Without(list, id) ==
    IF list = <<>> THEN <<>>
    ELSE IF Head(list).id # id THEN <<Head(list)>> \o Without(Tail(list), id)
    ELSE Without(Tail(list), id)

AddScenario_unguarded ==
    /\ scenario_counter < MaxCounter
    /\ scenario_counter' = scenario_counter + 1
    /\ scenarios' = Append(scenarios, new_scenario(scenario_counter + 1))
    /\ UNCHANGED <<wf_args, wf_result, am_call, am_result, pg_vars, irr_vars, cost_vars>>

\* the Add Scenario button, offered while fewer than 3 scenarios exist
AddScenario ==
    /\ Len(scenarios) < MaxScenarios
    /\ scenario_counter < MaxCounter
    /\ scenario_counter' = scenario_counter + 1
    /\ scenarios' = Append(scenarios, new_scenario(scenario_counter + 1))
    /\ UNCHANGED <<wf_args, wf_result, am_call, am_result, pg_vars, irr_vars, cost_vars>>

RemoveScenario_unguarded ==
    /\ \E idx \in 1..Len(scenarios) :
           scenarios' = Without(scenarios, scenarios[idx].id)
    /\ UNCHANGED <<scenario_counter, wf_args, wf_result, am_call, am_result, pg_vars,
                   irr_vars, cost_vars>>

\* the Remove button of a scenario, offered while more than one scenario exists
RemoveScenario ==
    /\ Len(scenarios) > 1
    /\ \E idx \in 1..Len(scenarios) :
           scenarios' = Without(scenarios, scenarios[idx].id)
    /\ UNCHANGED <<scenario_counter, wf_args, wf_result, am_call, am_result, pg_vars,
                   irr_vars, cost_vars>>

\* the Financing Type selectbox of a scenario: render_scenario_inputs writes the
\* choice into the scenario
SelectType ==
    /\ \E idx \in 1..Len(scenarios), type \in {"Loan", "Cash", "Hybrid"} :
           /\ scenarios[idx].type # type
           /\ scenarios' = [scenarios EXCEPT ![idx].type = type]
    /\ UNCHANGED <<scenario_counter, wf_args, wf_result, am_call, am_result, pg_vars,
                   irr_vars, cost_vars>>

InitSession == SsIdle /\ WfIdle /\ AmIdle /\ PgIdle /\ IrrIdle

NextSession ==
    \/ AddScenario
    \/ RemoveScenario
    \/ SelectType

SpecSession == InitSession /\ [][NextSession]_vars

(***************************************************************************)
(* Annual operating costs of the session: the main page, app.py            *)
(*                                                                         *)
(* Every run of app.py reads the six number inputs into the session and    *)
(* then stores their sum; the calculation pages read the stored sum.       *)
(***************************************************************************)
\* amounts a number input (min_value=0.0) can hold
CostSet == {Zero, RDiv(R(2401), R(2))}

AnnualCostOf_withoutOther(c) ==
    RAdd(RAdd(RAdd(RAdd(c.hoa_fee, c.cam_fee), c.property_taxes), c.insurance), c.misc)

\* hoa_fee + cam_fee + property_taxes + insurance + misc + other
AnnualCostOf(c) ==
    RAdd(RAdd(RAdd(RAdd(RAdd(c.hoa_fee, c.cam_fee), c.property_taxes), c.insurance),
              c.misc), c.other)

\* the user changes one of the six inputs: the run stores it and the new sum
EditCost ==
    /\ \E name \in CostNames, amount \in CostSet :
           /\ costs[name] # amount
           /\ costs' = [costs EXCEPT ![name] = amount]
           /\ annual_cost' = AnnualCostOf([costs EXCEPT ![name] = amount])
    /\ UNCHANGED <<scenarios, scenario_counter, wf_args, wf_result, am_call, am_result,
                   pg_vars, irr_vars>>

\* a calculation page (4 to 7) runs: total_annual_costs is taken from the session
OpenCalculationPage ==
    /\ pg_call' = [fn |-> "total_annual_costs", costs |-> costs, annual_cost |-> annual_cost]
    /\ pg_result' = [total_annual_costs |-> calculate_total_annual_costs_dollar(annual_cost)]
    /\ UNCHANGED <<wf_args, wf_result, am_call, am_result, irr_vars, ss_vars>>

InitCosts == SsIdle /\ WfIdle /\ AmIdle /\ PgIdle /\ IrrIdle

NextCosts ==
    \/ EditCost
    \/ OpenCalculationPage

SpecCosts == InitCosts /\ [][NextCosts]_vars

(***************************************************************************)
(* Properties of the Waterfall Distributor                                 *)
(***************************************************************************)
WfReturned == wf_result # NoCall /\ wf_result.status = "ok"

ProfitTiers == {"tier1", "tier2", "tier3"}

TierIsZero(t) ==
    /\ REq(wf_result.tier_distributions[t].amount, Zero)
    /\ REq(wf_result.tier_distributions[t].gp, Zero)
    /\ REq(wf_result.tier_distributions[t].lp, Zero)

\* hurdleTarget = investedCapital x ((1 + hurdleRatePct/100)^yearsHeld - 1)
HurdleTargetOfArgs ==
    RMul(wf_args.adjusted_raise,
         RSub(RPow(RAdd(One, RDiv(wf_args.hurdle_rate, Hundred)), wf_args.years_held),
              One))

\* |a - b| < 1 (one dollar)
WithinOneDollar(a, b) == RLt(RSub(a, b), One) /\ RLt(RSub(b, a), One)

\* C1: waterfall conservation - whenever distribute returns a result,
\* gpTotal + lpTotal + leftOver = totalProceeds and
\* totalDistributed = totalProceeds - leftOver.
C1_Conservation ==
    WfReturned =>
        /\ REq(RAdd(RAdd(wf_result.gp_total, wf_result.lp_total), wf_result.left_over),
               wf_args.left_to_distribute)
        /\ REq(wf_result.total_distributed,
               RSub(wf_args.left_to_distribute, wf_result.left_over))

\* a result in which both parties were paid in several profit tiers and money is left over
C1_Witness ==
    /\ WfReturned
    /\ RGt(wf_result.gp_total, Zero)
    /\ RGt(wf_result.tier_distributions["tier2"].lp, Zero)
    /\ RGt(wf_result.left_over, Zero)

\* C2: partial hurdle - whenever totalProceeds < hurdleTarget, distribute returns
\* lpTotal = totalProceeds, gpTotal = 0 and tier1, tier2, tier3 all report 0.
C2_PartialHurdle ==
    (wf_result # NoCall /\ RLt(wf_args.left_to_distribute, HurdleTargetOfArgs)) =>
        /\ wf_result.status = "ok"
        /\ REq(wf_result.lp_total, wf_args.left_to_distribute)
        /\ REq(wf_result.gp_total, Zero)
        /\ \A t \in ProfitTiers : TierIsZero(t)

\* positive proceeds below the hurdle target have been distributed
C2_Witness ==
    /\ WfReturned
    /\ RLt(wf_args.left_to_distribute, HurdleTargetOfArgs)
    /\ RGt(wf_args.left_to_distribute, Zero)
    /\ RGt(wf_args.gp_percent, Zero)

\* The general statement of C3: whenever totalProceeds >= hurdleTarget, the hurdle
\* tier of the result gives the LP exactly hurdleTarget and the GP 0, and exactly
\* totalProceeds - hurdleTarget is carried into the profit tiers.
FullHurdle ==
    (WfReturned /\ RGe(wf_args.left_to_distribute, HurdleTargetOfArgs)) =>
        /\ REq(wf_result.tier_distributions["hurdle"].lp, HurdleTargetOfArgs)
        /\ REq(wf_result.tier_distributions["hurdle"].amount, HurdleTargetOfArgs)
        /\ REq(wf_result.tier_distributions["hurdle"].gp, Zero)
        /\ REq(wf_result.tier_distributions["tier1"].amount,
               RSub(wf_args.left_to_distribute, HurdleTargetOfArgs))

\* the spec's end-to-end example: proceeds 1,000,000, invested 175,000, hurdle 8%, 10 years
IsSpecExample ==
    /\ WfReturned
    /\ REq(wf_args.left_to_distribute, R(1000000))
    /\ REq(wf_args.adjusted_raise, R(175000))
    /\ REq(wf_args.hurdle_rate, R(8))
    /\ wf_args.years_held = 10

ExampleFigures(hurdleDollars, carriedDollars) ==
    IsSpecExample =>
        /\ WithinOneDollar(wf_result.tier_distributions["hurdle"].lp, R(hurdleDollars))
        /\ WithinOneDollar(wf_result.tier_distributions["tier1"].amount,
                           R(carriedDollars))

\* C3 as stated: the full-hurdle rule, with the example's hurdle about 202,017 and
\* about 797,983 carried on.
C3_FullHurdle_Original == FullHurdle /\ ExampleFigures(202017, 797983)

\* C3 (amended): the full-hurdle rule; in the example the hurdle is about 202,812
\* and about 797,188 is carried into the profit tiers.
C3_FullHurdle == FullHurdle /\ ExampleFigures(202812, 797188)

\* the example has been distributed
C3_Witness == IsSpecExample /\ RGt(wf_args.gp_percent, Zero)

\* C4: for every input, tier1 consumes the entire balance left after the hurdle
\* tier, so tier2 and tier3 always report amount 0, gp 0 and lp 0.
C4_Tier1ConsumesAll ==
    WfReturned => TierIsZero("tier2") /\ TierIsZero("tier3")

\* C5: distribute is total - for every input, gpPercent = 0 included, it returns a
\* Waterfall Result and never aborts with an error.
C5_DistributeTotal ==
    wf_result # NoCall => wf_result.status = "ok"

(***************************************************************************)
(* Properties of the Amortization Module                                   *)
(***************************************************************************)
AmReturned(f) == am_call.fn = f /\ am_result # NoCall

\* C6: futureValue clamps its result to a minimum of 0 on every branch, the
\* zero-rate branch included, so neither futureValue nor remainingPrincipal
\* ever returns a negative value.
C6_NeverNegative ==
    (AmReturned("fv") \/ AmReturned("remaining_principal")) =>
        IsNumber(am_result) /\ RGe(am_result, Zero)

\* C7 as stated: remainingPrincipal returns 0 whenever principal, annualRatePct,
\* termYears or paymentsMade is non-positive.
C7_ZeroOnNonPositive_Original ==
    (/\ AmReturned("remaining_principal")
     /\ \/ RLe(am_call.loan_amount, Zero)
        \/ RLe(am_call.annual_rate, Zero)
        \/ am_call.term_years <= 0
        \/ am_call.payments_made <= 0)
    => IsNumber(am_result) /\ REq(am_result, Zero)

\* C7 (amended): remainingPrincipal returns 0 whenever principal, termYears or
\* paymentsMade is non-positive; in particular it returns 0 for paymentsMade = 0.
C7_ZeroOnNonPositive ==
    (/\ AmReturned("remaining_principal")
     /\ \/ RLe(am_call.loan_amount, Zero)
        \/ am_call.term_years <= 0
        \/ am_call.payments_made <= 0)
    => IsNumber(am_result) /\ REq(am_result, Zero)

\* a loan with a valid principal, rate and term was asked for its balance after 0 payments
C7_Witness ==
    /\ AmReturned("remaining_principal")
    /\ RGt(am_call.loan_amount, Zero)
    /\ RGt(am_call.annual_rate, Zero)
    /\ am_call.term_years > 0
    /\ am_call.payments_made = 0

\* C8: monthlyPayment returns 0 when principal <= 0 or termYears <= 0; otherwise,
\* when annualRatePct is exactly 0, it returns principal / (termYears x 12)
\* without dividing by zero.
C8_MonthlyPaymentEdges ==
    AmReturned("monthly_payment") =>
        IF RLe(am_call.loan_amount, Zero) \/ am_call.term_years <= 0
        THEN IsNumber(am_result) /\ REq(am_result, Zero)
        ELSE REq(am_call.annual_rate, Zero) =>
                /\ IsNumber(am_result)
                /\ REq(am_result, RDiv(am_call.loan_amount, R(am_call.term_years * 12)))

\* a zero-rate loan with a valid principal and term got its payment
C8_Witness ==
    /\ AmReturned("monthly_payment")
    /\ RGt(am_call.loan_amount, Zero)
    /\ am_call.term_years > 0
    /\ REq(am_call.annual_rate, Zero)

\* C9: interestPortion returns 0 whenever the rate is 0 or an input is invalid
\* (principal <= 0, termYears <= 0, period < 1, or period past termYears x 12),
\* and it never returns a negative interest amount.
C9_InterestPortionEdges ==
    AmReturned("ipmt") =>
        /\ IsNumber(am_result)
        /\ RGe(am_result, Zero)
        /\ (\/ REq(am_call.annual_rate, Zero)
            \/ RLe(am_call.loan_amount, Zero)
            \/ am_call.term_years <= 0
            \/ am_call.period < 1
            \/ am_call.period > am_call.term_years * 12)
           => REq(am_result, Zero)

\* sum over periods lo..hi of (monthlyPayment - interestPortion(period))
RECURSIVE PrincipalPaidIn(_, _, _, _, _)
PrincipalPaidIn(loan_amount, annual_rate, term_years, lo, hi) ==
    IF lo > hi THEN Zero
    ELSE IF lo = hi
    THEN RSub(calculate_monthly_payment(loan_amount, annual_rate, term_years),
              calculate_ipmt(loan_amount, annual_rate, term_years, lo))
    ELSE LET mid == (lo + hi) \div 2
         IN  RAdd(PrincipalPaidIn(loan_amount, annual_rate, term_years, lo, mid),
                  PrincipalPaidIn(loan_amount, annual_rate, term_years, mid + 1, hi))

PrincipalPaid(loan_amount, annual_rate, term_years, m) ==
    PrincipalPaidIn(loan_amount, annual_rate, term_years, 1, m)

AmortizingCall ==
    /\ AmReturned("remaining_principal")
    /\ RGt(am_call.loan_amount, Zero)
    /\ RGt(am_call.annual_rate, Zero)
    /\ am_call.term_years > 0
    /\ am_call.payments_made >= 1
    /\ am_call.payments_made <= am_call.term_years * 12

\* C10: amortization identity - for principal > 0, rate > 0, term > 0 and
\* 1 <= m <= termYears x 12, the principal reductions of periods 1..m add up to
\* principal - remainingPrincipal(principal, rate, term, m).
C10_AmortizationIdentity ==
    AmortizingCall =>
        /\ IsNumber(am_result)
        /\ REq(PrincipalPaid(am_call.loan_amount, am_call.annual_rate,
                             am_call.term_years, am_call.payments_made),
               RSub(am_call.loan_amount, am_result))

\* a full year of payments on a two-year loan, with a balance still outstanding
C10_Witness ==
    /\ AmortizingCall
    /\ am_call.payments_made = 12
    /\ RGt(am_result, Zero)

(***************************************************************************)
(* Properties of the Financing Resolver and the Cash-Flow Projector        *)
(***************************************************************************)
PgReturned(f) == pg_call.fn = f /\ pg_result # NoCall

\* C11: calculate_loan_metrics returns loan_amount = project_cost * loan_percent / 100,
\* down_payment = project_cost * down_payment_percent / 100, raise_amount =
\* down_payment + additional_startup and difference_reserve_cash = adjusted_raise -
\* raise_amount, for every scenario, whether or not the two percents add up to 100.
C11_LoanMetrics ==
    PgReturned("loan_metrics") =>
        /\ DOMAIN pg_result
               = {"loan_amount", "down_payment", "raise_amount", "difference_reserve_cash"}
        /\ REq(pg_result.loan_amount,
               RDiv(RMul(pg_call.project_cost, pg_call.scenario.loan_percent), Hundred))
        /\ REq(pg_result.down_payment,
               RDiv(RMul(pg_call.project_cost, pg_call.scenario.down_payment_percent),
                    Hundred))
        /\ REq(pg_result.raise_amount,
               RAdd(pg_result.down_payment, pg_call.scenario.additional_startup))
        /\ REq(pg_result.difference_reserve_cash,
               RSub(pg_call.scenario.adjusted_raise, pg_result.raise_amount))

\* metrics were returned for percents that do not add up to 100 and a project with a cost
C11_Witness ==
    /\ PgReturned("loan_metrics")
    /\ ~REq(RAdd(pg_call.scenario.loan_percent, pg_call.scenario.down_payment_percent),
            Hundred)
    /\ Positive(pg_call.project_cost)
    /\ Positive(pg_result.loan_amount)

\* the debt service of the scenario of a cash-flow call, by financing type
ExpectedDebtService ==
    IF pg_call.scenario.type = "Loan"
    THEN RMul(calculate_monthly_payment(
                  RDiv(RMul(pg_call.ss.project_cost, pg_call.scenario.loan_percent), Hundred),
                  pg_call.scenario.rate, pg_call.scenario.term),
              Twelve)
    ELSE Zero

\* C12: in the rows of calculate_10_year_cash_flow the debt service subtracted is the
\* monthly payment * 12 when the scenario's type is Loan and 0 when it is Cash or
\* Hybrid, and it is the same in each of the 10 years.
C12_DebtServiceByType ==
    PgReturned("cash_flow") =>
        \A year \in 1..LastYear :
            REq(RSub(RSub(pg_result.df[year].Rent, pg_call.ss.annual_cost),
                     pg_result.df[year].CashFlow),
                ExpectedDebtService)

\* rows were returned for a Hybrid scenario that borrows at interest: they subtract
\* no debt service
C12_Witness ==
    /\ PgReturned("cash_flow")
    /\ Positive(pg_call.scenario.loan_percent)
    /\ pg_call.scenario.type = "Hybrid"
    /\ Positive(pg_call.scenario.rate)
    /\ REq(RSub(pg_result.df[1].Rent, pg_call.ss.annual_cost), pg_result.df[1].CashFlow)

\* price_per * (1 + escalator / 100) ** (year - 1), the price of a year in closed form
ClosedFormPrice(price_per, escalator, year) ==
    RMul(price_per, RPow(RAdd(One, RDiv(escalator, Hundred)), year - 1))

\* C13: calculate_10_year_cash_flow returns exactly 10 rows, for years 1..10 in order,
\* with income = price of the year * total_sqft, cash flow = income - annual costs -
\* debt service, adjusted = cash flow * adjusted fraction, GP = adjusted * gp fraction,
\* LP = adjusted * lp fraction and LP CoC % = LP / adjusted_raise * 100 when
\* adjusted_raise > 0, else 0.
C13_TenRows ==
    PgReturned("cash_flow") =>
        /\ DOMAIN pg_result.df = 1..10
        /\ \A year \in 1..10 :
            /\ pg_result.df[year].Year = year
            /\ REq(pg_result.df[year].Rent,
                   RMul(ClosedFormPrice(pg_call.ss.price_per, pg_call.ss.income_escalator,
                                        year),
                        pg_call.ss.total_sqft))
            /\ REq(pg_result.df[year].CashFlow,
                   RSub(RSub(pg_result.df[year].Rent, pg_call.ss.annual_cost),
                        ExpectedDebtService))
            /\ REq(pg_result.df[year].Adjusted,
                   RDiv(RMul(pg_result.df[year].CashFlow, pg_call.adjusted_percent), Hundred))
            /\ REq(pg_result.df[year].GP,
                   RDiv(RMul(pg_result.df[year].Adjusted, pg_call.gp_percent), Hundred))
            /\ REq(pg_result.df[year].LP,
                   RDiv(RMul(pg_result.df[year].Adjusted, pg_call.lp_percent), Hundred))
            /\ IF Positive(pg_call.scenario.adjusted_raise)
               THEN REq(pg_result.df[year].LPCoC,
                        RMul(RDiv(pg_result.df[year].LP, pg_call.scenario.adjusted_raise),
                             Hundred))
               ELSE REq(pg_result.df[year].LPCoC, Zero)

\* rows were returned for a Loan scenario with a debt service, operating costs, a
\* growing price and a positive adjusted raise
C13_Witness ==
    /\ PgReturned("cash_flow")
    /\ pg_call.scenario.type = "Loan"
    /\ Positive(pg_call.scenario.adjusted_raise)
    /\ Positive(pg_call.ss.annual_cost)
    /\ Positive(pg_call.ss.income_escalator)
    /\ RLt(pg_result.df[1].CashFlow, pg_result.df[1].Rent)
    /\ Positive(pg_result.df[10].LPCoC)

Increasing(projections) ==
    \A year \in 1..(Len(projections) - 1) : RLt(projections[year], projections[year + 1])

Constant(projections) ==
    \A year \in 1..Len(projections) : REq(projections[year], projections[1])

\* C14 as stated: the projection is strictly increasing whenever escalator > 0 and
\* constant whenever escalator = 0, for every base price >= 0.
C14_Monotone_Original ==
    PgReturned("price_per_projection") =>
        /\ Positive(pg_call.escalator) => Increasing(pg_result.projections)
        /\ IsZero(pg_call.escalator) => Constant(pg_result.projections)

\* C14: the projection has 10 periods, the first is the base price; it is strictly
\* increasing when escalator > 0 and the base price > 0, and constant when
\* escalator = 0 or the base price = 0.
C14_Monotone ==
    PgReturned("price_per_projection") =>
        /\ Len(pg_result.projections) = 10
        /\ REq(pg_result.projections[1], pg_call.price_per)
        /\ (Positive(pg_call.escalator) /\ Positive(pg_call.price_per))
               => Increasing(pg_result.projections)
        /\ (IsZero(pg_call.escalator) \/ IsZero(pg_call.price_per))
               => Constant(pg_result.projections)

\* a projection from the base price 0 with a positive escalator was returned
C14_Witness ==
    /\ PgReturned("price_per_projection")
    /\ Positive(pg_call.escalator)
    /\ IsZero(pg_call.price_per)
    /\ Len(pg_result.projections) = 10
(***************************************************************************)
(* Properties of the IRR Solver                                            *)
(***************************************************************************)
IrrDone == irr # NoCall /\ irr.pc = "done"

\* rates at which some of the calls have a net present value of exactly 0
KnownRates == {RDiv(R(-1), R(2)), RDiv(One, R(10)), RDiv(One, R(5))}

OneTenThousandth == RDiv(One, R(10000))

\* C15: when the NPV of [-|initial_investment|, cash flows...] at a known rate is
\* exactly 0, calculate_irr returns that rate * 100 within 1e-4.
C15_RoundTrip ==
    (IrrDone /\ ~NpvRaises(all_cash_flows(irr_call), One)) =>
        \A known \in KnownRates :
            IsZero(npv(all_cash_flows(irr_call), RAdd(One, known), 0)) =>
                /\ IsNumber(irr.result)
                /\ RLe(RAbs(RSub(irr.result, RMul(known, Hundred))), OneTenThousandth)

\* what the solver may end with: a rate * 100 at which |NPV| < tolerance, or None
RateFound ==
    /\ REq(irr.result, RMul(irr.rate, Hundred))
    /\ ~NpvRaises(all_cash_flows(irr_call), RAdd(One, irr.rate))
    /\ RLt(RAbs(npv(all_cash_flows(irr_call), RAdd(One, irr.rate), 0)), tolerance)

SolverBounded ==
    irr # NoCall =>
        /\ irr.i <= 100
        /\ irr.pc = "done" =>
               IF IsNumber(irr.result) THEN RateFound ELSE irr.result = None

\* the steps calculate_irr can still take: the iterations left of this attempt, the
\* fallback attempt if this is the first, and the return
StepsLeft ==
    IF irr = NoCall THEN 2 * max_iter + 5
    ELSE IF irr.pc = "done" THEN 0
    ELSE (2 - irr.attempt) * (max_iter + 2) + (max_iter - irr.i) + 1

\* C16: the Newton-Raphson solver ends after at most 100 iterations (every step uses
\* up one of a bounded number of steps); calculate_irr returns a rate only when
\* |NPV(rate)| < 1e-6 was reached and otherwise None: no exception leaves it, and no
\* guessed or zero value.
C16_BoundedNewton == [](SolverBounded) /\ [][StepsLeft' < StepsLeft]_vars

\* the 100 iterations were used up without reaching |NPV| < 1e-6: None is returned
C16_Witness ==
    /\ IrrDone
    /\ irr.i = 100
    /\ irr.result = None
    /\ ~RLt(RAbs(npv(all_cash_flows(irr_call), RAdd(One, irr.rate), 0)), tolerance)
(***************************************************************************)
(* Properties of the Exit Valuation and its pages                          *)
(***************************************************************************)
\* the NOI of year 10 of a session: the income of year 10 less the annual cost
NoiOfYear10(ss) ==
    RSub(RMul(ClosedFormPrice(ss.price_per, ss.income_escalator, 10), ss.total_sqft),
         ss.annual_cost)

\* C17: calculate_exit_price returns None exactly when exit_cap_rate = 0 and otherwise
\* noi_year_10 / (exit_cap_rate / 100); the pages call it with the income of year 10
\* less the annual operating cost.
C17_ExitPrice ==
    /\ PgReturned("exit_price") =>
           IF IsZero(pg_call.exit_cap_rate) THEN pg_result = None
           ELSE /\ IsNumber(pg_result)
                /\ REq(pg_result,
                       RDiv(RMul(pg_call.noi_year_10, Hundred), pg_call.exit_cap_rate))
    /\ (/\ PgReturned("waterfall_page") \/ PgReturned("final_comparison_page")
        /\ ~IsZero(pg_call.ss.exit_cap_rate)) =>
           /\ pg_result.status = "ok"
           /\ REq(pg_result.exit_price,
                  RDiv(RMul(NoiOfYear10(pg_call.ss), Hundred), pg_call.ss.exit_cap_rate))

\* calculate_exit_price was called with a cap rate of 0 and a non-zero NOI
C17_Witness ==
    /\ PgReturned("exit_price")
    /\ IsZero(pg_call.exit_cap_rate)
    /\ ~IsZero(pg_call.noi_year_10)
    /\ pg_result = None

\* a value of the page is the value calculate_exit_price gives: the same number, or None
SameAs(value, price) ==
    IF IsNumber(price) THEN IsNumber(value) /\ REq(value, price) ELSE value = price

\* C18: the three rows of the exit-value table (cap rate, + 0.5, - 0.5) are each the
\* value of calculate_exit_price for the NOI of year 10, and the equity is the base
\* value less the remaining principal.
C18_ExitRowsUseNoi ==
    PgReturned("exit_returns_page") =>
        /\ SameAs(pg_result.exit_value_base,
                  calculate_exit_price(NoiOfYear10(pg_call.ss), pg_call.ss.exit_cap_rate))
        /\ SameAs(pg_result.exit_value_plus,
                  calculate_exit_price(NoiOfYear10(pg_call.ss),
                                       RAdd(pg_call.ss.exit_cap_rate, HalfPoint)))
        /\ SameAs(pg_result.exit_value_minus,
                  calculate_exit_price(NoiOfYear10(pg_call.ss),
                                       RSub(pg_call.ss.exit_cap_rate, HalfPoint)))
        /\ REq(pg_result.projected_project_equity,
               RSub(pg_result.exit_value_base, pg_result.remaining_principal_10yr))

\* C19: with an exit cap rate of 0 the waterfall page and the final-comparison page
\* complete the evaluation of a scenario without raising.
C19_ZeroCapNoCrash ==
    (/\ PgReturned("waterfall_page") \/ PgReturned("final_comparison_page")
     /\ IsZero(pg_call.ss.exit_cap_rate)) =>
        pg_result.status = "ok"
(***************************************************************************)
(* Properties of the session's scenarios                                   *)
(***************************************************************************)
\* C20: after any sequence of Add Scenario and Remove clicks at most 3 scenarios
\* exist in the session.
C20_AtMostThree == Len(scenarios) <= 3

\* three scenarios exist after more than three were added, so after a removal
C20_Witness ==
    /\ Len(scenarios) = 3
    /\ scenario_counter > 3
\* the ids of the scenarios of the session
IdsOf(list) == {list[k].id : k \in 1..Len(list)}

DistinctIds == \A j, k \in 1..Len(scenarios) : j # k => scenarios[j].id # scenarios[k].id

\* every id in use was handed out by the counter
IdsFromCounter == \A id \in IdsOf(scenarios) : id >= 1 /\ id <= scenario_counter

\* a step never lowers the counter, and a scenario that appears in a step carries an id
\* above every id the counter had handed out before
FreshIds ==
    /\ scenario_counter' >= scenario_counter
    /\ \A id \in IdsOf(scenarios') \ IdsOf(scenarios) : id > scenario_counter

\* C21: after any sequence of Add Scenario and Remove clicks the ids of the scenarios
\* are pairwise distinct, and an id freed by a removal is never given to a later
\* scenario: the counter only increases and every new id lies above it.
C21_DistinctIds == [](DistinctIds /\ IdsFromCounter) /\ [][FreshIds]_vars

\* a scenario was removed and scenarios were added after it: the ids in use have a gap
C21_Witness ==
    /\ Len(scenarios) = 3
    /\ scenario_counter = 5
    /\ IdsOf(scenarios) = {1, 4, 5}

\* the list without its element at position idx
Dropped(list, idx) == SubSeq(list, 1, idx - 1) \o SubSeq(list, idx + 1, Len(list))

\* a step that shortens the list drops exactly one scenario and keeps the others, with
\* their fields, in their order
RemovesOne ==
    Len(scenarios') < Len(scenarios) =>
        \E idx \in 1..Len(scenarios) : scenarios' = Dropped(scenarios, idx)

\* once a scenario was added the list holds 1..3 scenarios
NeverEmptied ==
    scenario_counter > 0 => (Len(scenarios) >= 1 /\ Len(scenarios) <= 3)

\* C30: once the first scenario was added no sequence of Add Scenario and Remove
\* clicks empties the list (1..3 scenarios), and a Remove deletes exactly the clicked
\* scenario, leaving the fields and the order of the others unchanged.
C30_RemoveExactlyOne == [](NeverEmptied) /\ [][RemovesOne]_vars

\* the middle one of three scenarios was removed, after a type change of another
C30_Witness ==
    /\ Len(scenarios) = 2
    /\ scenarios[1].id = 1
    /\ scenarios[1].type = "Hybrid"
    /\ scenarios[2].id = 3
(***************************************************************************)
(* Properties of the session's annual operating costs                      *)
(***************************************************************************)
\* the six components added up one by one, starting from the last
SumOfSix(c) ==
    RAdd(c.other, RAdd(c.misc, RAdd(c.insurance, RAdd(c.property_taxes,
         RAdd(c.cam_fee, c.hoa_fee)))))

\* C22: in every session state, and in every state a calculation page observes, the
\* annual operating cost is the sum of the six cost components (HOA, CAM, property
\* taxes, insurance, misc, other), from the initial state on and after any edit.
C22_AnnualCostIsSum ==
    /\ REq(annual_cost, SumOfSix(costs))
    /\ PgReturned("total_annual_costs") =>
           REq(pg_result.total_annual_costs, SumOfSix(pg_call.costs))

\* a page has read the cost after all six components were set, and one was edited since
C22_Witness ==
    /\ PgReturned("total_annual_costs")
    /\ \A name \in CostNames : Positive(pg_call.costs[name])
    /\ Positive(costs.other)
    /\ costs # pg_call.costs
(***************************************************************************)
(* Properties of the profit tiers of the Waterfall Distributor             *)
(***************************************************************************)
TierRow(t) == wf_result.tier_distributions[t]

\* gpShare = (remaining / (gpPercent/100)) x (lpPercent/100), as one quotient
StatedGpShare(remaining, gp_percent, lp_percent) ==
    RDiv(RMul(remaining, lp_percent), gp_percent)

\* the stated amounts of a tier that starts with remaining > 0
StatedSplit(row, remaining, gp_share, gp_percent, lp_percent) ==
    IF RLe(gp_share, remaining)
    THEN /\ REq(row.gp, gp_share)
         /\ REq(row.lp, RSub(remaining, gp_share))
    ELSE /\ REq(row.gp, RDiv(RMul(remaining, gp_percent), Hundred))
         /\ REq(row.lp, RDiv(RMul(remaining, lp_percent), Hundred))

\* a tier that starts with remaining: nothing if remaining <= 0, else the stated split
StatedTier(row, remaining, gp_percent, lp_percent) ==
    IF NonPositive(remaining)
    THEN IsZero(row.amount) /\ IsZero(row.gp) /\ IsZero(row.lp)
    ELSE StatedSplit(row, remaining, StatedGpShare(remaining, gp_percent, lp_percent),
                     gp_percent, lp_percent)

\* what a tier leaves for the next one
LeftBy(row, remaining) == RSub(remaining, RAdd(row.gp, row.lp))

AfterHurdle == RSub(wf_args.left_to_distribute, TierRow("hurdle").amount)

AfterTier1 == LeftBy(TierRow("tier1"), AfterHurdle)

AfterTier2 == LeftBy(TierRow("tier2"), AfterTier1)

\* C23: in each profit tier with remaining > 0, gpShare = (remaining / (gpPercent/100))
\* x (lpPercent/100); if gpShare <= remaining the GP gets gpShare and the LP remaining -
\* gpShare, otherwise the GP gets remaining x gpPercent/100 and the LP remaining x
\* lpPercent/100; tier1, tier2, tier3 are evaluated in this order after the hurdle.
C23_TierFormulas ==
    WfReturned =>
        /\ StatedTier(TierRow("tier1"), AfterHurdle, wf_args.gp_percent, wf_args.lp_percent)
        /\ StatedTier(TierRow("tier2"), AfterTier1, wf_args.gp_percent, wf_args.lp_percent)
        /\ StatedTier(TierRow("tier3"), AfterTier2, wf_args.gp_percent, wf_args.lp_percent)

\* all three profit tiers paid both parties by the percentage split
C23_Witness ==
    /\ WfReturned
    /\ RLt(wf_args.gp_percent, wf_args.lp_percent)
    /\ Positive(TierRow("tier3").gp)
    /\ Positive(TierRow("tier3").lp)

AmountIsGpPlusLp(row) == REq(row.amount, RAdd(row.gp, row.lp))

SumOfTierAmounts ==
    RAdd(RAdd(TierRow("hurdle").amount, TierRow("tier1").amount),
         RAdd(TierRow("tier2").amount, TierRow("tier3").amount))

\* C24: in every result each tier's amount is that tier's gp + lp, and the four
\* amounts add up to totalDistributed, for all gpPercent and lpPercent.
C24_AmountsAddUp ==
    WfReturned =>
        /\ \A t \in ProfitTiers \cup {"hurdle"} : AmountIsGpPlusLp(TierRow(t))
        /\ REq(SumOfTierAmounts, wf_result.total_distributed)

Negative(a) == a.s < 0

InZeroToHundred(percent) == Positive(percent) /\ RLe(percent, Hundred)

\* C25: for totalProceeds >= 0 and gpPercent, lpPercent each in (0, 100] distribute
\* never hands out more than it was given: leftOver >= 0, totalDistributed <=
\* totalProceeds, gpTotal >= 0 and lpTotal >= 0.
C25_NoOverDistribution ==
    (/\ WfReturned
     /\ ~Negative(wf_args.left_to_distribute)
     /\ InZeroToHundred(wf_args.gp_percent)
     /\ InZeroToHundred(wf_args.lp_percent)) =>
        /\ ~Negative(wf_result.left_over)
        /\ RLe(wf_result.total_distributed, wf_args.left_to_distribute)
        /\ ~Negative(wf_result.gp_total)
        /\ ~Negative(wf_result.lp_total)

\* C26: when gpPercent + lpPercent = 100 (both > 0) and the proceeds exceed the hurdle,
\* the GP's tier1 amount is remaining x gpPercent/100 and the LP's remaining x
\* lpPercent/100, for every such split.
C26_ProportionalSplit ==
    (/\ WfReturned
     /\ Positive(wf_args.gp_percent)
     /\ Positive(wf_args.lp_percent)
     /\ REq(RAdd(wf_args.gp_percent, wf_args.lp_percent), Hundred)
     /\ RGt(wf_args.left_to_distribute, HurdleTargetOfArgs)) =>
        /\ REq(TierRow("tier1").gp, RDiv(RMul(AfterHurdle, wf_args.gp_percent), Hundred))
        /\ REq(TierRow("tier1").lp, RDiv(RMul(AfterHurdle, wf_args.lp_percent), Hundred))
(***************************************************************************)
(* Properties of the remaining principal over the term                     *)
(***************************************************************************)
\* calculate_remaining_principal has returned for a loan within its schedule:
\* principal > 0, rate >= 0, termYears > 0 and 1 <= paymentsMade <= termYears x 12
WithinSchedule ==
    /\ am_result # NoCall
    /\ am_call.fn = "remaining_principal"
    /\ Positive(am_call.loan_amount)
    /\ ~Negative(am_call.annual_rate)
    /\ am_call.term_years > 0
    /\ am_call.payments_made >= 1
    /\ am_call.payments_made <= am_call.term_years * 12

\* the balance one payment earlier
BalanceBefore ==
    calculate_remaining_principal(am_call.loan_amount, am_call.annual_rate,
                                  am_call.term_years, am_call.payments_made - 1)

\* C27: for principal > 0, rate >= 0 and termYears > 0 the remaining principal is
\* non-increasing in paymentsMade over 1..termYears x 12, never exceeds the principal
\* and is 0 at paymentsMade = termYears x 12.
C27_PrincipalFalls ==
    WithinSchedule =>
        /\ IsNumber(am_result)
        /\ RLe(am_result, am_call.loan_amount)
        /\ am_call.payments_made = am_call.term_years * 12 => IsZero(am_result)
        /\ am_call.payments_made >= 2 => RLe(am_result, BalanceBefore)

\* the last payment of a loan at interest has been made
C27_Witness ==
    /\ WithinSchedule
    /\ Positive(am_call.annual_rate)
    /\ am_call.payments_made = am_call.term_years * 12
    /\ IsZero(am_result)
    /\ Positive(BalanceBefore)
(***************************************************************************)
(* Properties across the pages                                             *)
(***************************************************************************)
\* two page results carry the same projected project equity
SameEquity(exit_returns, waterfall_page) ==
    /\ exit_returns.status = "ok"
    /\ waterfall_page.status = "ok"
    /\ REq(exit_returns.projected_project_equity, waterfall_page.projected_project_equity)
    /\ REq(exit_returns.remaining_principal_10yr, waterfall_page.remaining_principal_10yr)
    /\ REq(exit_returns.exit_value_base, waterfall_page.exit_price)

\* C28: for the same session inputs and the same scenario the Exit & Returns page and
\* the Waterfall page compute the same projected project equity: the same exit value
\* and the same remaining principal (0 for a Cash or Hybrid scenario).
C28_SameEquity ==
    PgReturned("exit_returns_page") =>
        SameEquity(pg_result, WaterfallPage(pg_call.ss, pg_call.scenario))

\* two page results hand the same proceeds to the distributor and report the same totals
SameProceeds(final_comparison, waterfall_page) ==
    /\ final_comparison.status = "ok"
    /\ waterfall_page.status = "ok"
    /\ REq(final_comparison.total_proceeds, waterfall_page.left_to_distribute)
    /\ final_comparison.waterfall.status = waterfall_page.waterfall.status
    /\ final_comparison.waterfall.status = "ok" =>
           /\ REq(final_comparison.waterfall.gp_total, waterfall_page.waterfall.gp_total)
           /\ REq(final_comparison.waterfall.lp_total, waterfall_page.waterfall.lp_total)
           /\ REq(final_comparison.waterfall.lp_multiple,
                  waterfall_page.waterfall.lp_multiple)

\* C29: for the same session inputs and the same scenario the Final Comparison page
\* passes the same total proceeds to the distributor as the Waterfall page (the 10
\* adjusted cash flows plus exit price minus remaining principal), so both report the
\* same gpTotal, lpTotal and lpMultiple.
C29_SameProceeds ==
    PgReturned("final_comparison_page") =>
        SameProceeds(pg_result, WaterfallPage(pg_call.ss, pg_call.scenario))
====
